---- MODULE Spec2Model ----
(***************************************************************************)
(* Model of the real-time audio capture pipeline: the RingBuffer, the      *)
(* VoiceActivityDetector and the AudioCaptureManager that ties them        *)
(* together (audio-capture-manager.ts), the start and stop tools of the    *)
(* MCP server (audio-mcp-server.ts), the AudioDeviceManager                *)
(* (audio-device-manager.ts) and the chunk buffer and transcribe() of the  *)
(* SpeechServiceManager (speech-service-manager.ts).                       *)
(*                                                                         *)
(* Sample amplitudes are integers in thousandths (20 stands for 0.020), so *)
(* that the root-mean-square comparisons of the detector are exact.        *)
(* Time is in milliseconds.                                                *)
(***************************************************************************)
EXTENDS Integers, Sequences, FiniteSets, TLC

VARIABLES
  \* fields of AudioCaptureManager
  nativeModule, ringBuffer, vad, isCapturing, currentConfig, audioChunks,
  processingInterval, listenersAttached,
  \* environment: intervals scheduled in the event loop, the callback held by
  \* the native module, the last value read from Date.now(), whether cleanup()
  \* is suspended at its await
  liveTimers, callbackSet, now, cleanupPending,
  \* observation: the last handler that ran (arguments, result, events emitted,
  \* driver operations invoked), totals of samples accepted by write and
  \* returned by read of the stand-alone buffer, samples the manager accepted
  \* from deliveries
  lastOp, totalWritten, totalRead, delivered,
  \* fields of AudioDeviceManager: the device cache, a Map from id to device,
  \* kept as the sequence of its devices in insertion order; the id of the
  \* default device, the monitoring flag and its interval, and the snapshot
  \* the last poll stored (sequences of length 0 stand for null and for '')
  devices, defaultDeviceId, isMonitoring, monitoringInterval, lastDeviceSnapshot,
  \* fields of SpeechServiceManager: the registered services, the transcript
  \* history, the flags and the buffered chunks; the requests suspended at
  \* the await of transcribe(); the number of chunks handed to addAudioChunk
  services, transcripts, isInitialized, continuousTranscription, audioBuffer,
  inFlight, chunkCount,
  \* observation of the stand-alone buffer: the samples accepted by write and
  \* the samples returned by read, each in order
  samplesIn, samplesOut,
  \* the audio driver outside the program: the device list it reports while
  \* that list stays the same (length 1), or nothing when it may change
  driverList,
  \* static fields of ErrorHandler: the error count and the time of the last
  \* error of each context:code key (Maps, kept as functions on the keys
  \* present), and the retries suspended in retryWithBackoff
  errorCounts, lastErrors, pendingRetries

mgrVars == <<nativeModule, vad, isCapturing, currentConfig, audioChunks,
             processingInterval, listenersAttached>>
envVars == <<liveTimers, callbackSet, now, cleanupPending>>
obsTotals == <<totalWritten, totalRead, delivered>>
speechVars == <<services, transcripts, isInitialized, continuousTranscription,
               audioBuffer, inFlight, chunkCount>>
fifoVars == <<samplesIn, samplesOut>>
errorVars == <<errorCounts, lastErrors, pendingRetries>>
devVars == <<devices, defaultDeviceId, isMonitoring, monitoringInterval,
            lastDeviceSnapshot, speechVars, fifoVars, driverList, errorVars>>
vars == <<nativeModule, ringBuffer, vad, isCapturing, currentConfig, audioChunks,
          processingInterval, listenersAttached, liveTimers, callbackSet, now,
          cleanupPending, lastOp, totalWritten, totalRead, delivered, devices,
          defaultDeviceId, isMonitoring, monitoringInterval, lastDeviceSnapshot,
          services, transcripts, isInitialized, continuousTranscription,
          audioBuffer, inFlight, chunkCount, samplesIn, samplesOut, driverList,
          errorVars>>

----------------------------------------------------------------------------
(* Bounds of the model *)

\* capacities of the stand-alone ring buffer: 1..MaxRingSize
MaxRingSize == 3
\* longest block handed to write / largest count handed to read (stand-alone)
MaxBlock == 3
\* samples accepted by write over a whole run (stand-alone)
MaxAccepted == 5
\* largest sampleRate * channels of a capture configuration
MaxSamplesPerSecond == 2
\* longest block of a delivery that is not oversized
MaxDelivery == 1
\* samples accepted from deliveries over a whole run of the manager
MaxDelivered == 3
\* Date.now() is read at multiples of ClockStep milliseconds, and advances at
\* most MaxClockSteps times
ClockStep == 200
MaxClockSteps == 2
\* getServerConfig().transcriptionHistoryLimit
HistoryLimit == 1
\* chunks handed to addAudioChunk over a whole run
MaxPushes == 3
\* transcription requests suspended at their await at one time
MaxInFlight == 1

\* most devices in one list of the native module
MaxDevices == 2
\* the device poll runs while Date.now() is at most MaxPollTime
MaxPollTime == 4200
\* longest block handed to the detector on its own
MaxVadBlock == 1
\* the detector on its own is called at timestamps up to MaxVadTime, each call
\* at most MaxVadSkip drain intervals after the one before
MaxVadTime == 1200
MaxVadSkip == 6

\* the JavaScript null
Null == [isNull |-> TRUE]

\* the two amplitudes used by the stand-alone buffer and the manager's
\* deliveries: silent and loud
RingLevels == {0, 20}

RECURSIVE SeqsUpTo(_, _)
\* all sequences over S of length 0..n
SeqsUpTo(S, n) ==
  IF n = 0 THEN {<<>>}
  ELSE LET shorter == SeqsUpTo(S, n - 1)
       IN  shorter \cup {Append(s, x) : s \in {t \in shorter : Len(t) = n - 1}, x \in S}

Min(a, b) == IF a < b THEN a ELSE b

----------------------------------------------------------------------------
(* RingBuffer: buffer is a Float32Array of `size` slots (slot p is          *)
(* buffer[p + 1]), zero-filled by the constructor.                          *)

NewRingBuffer(sizeInSamples) ==
  [size |-> sizeInSamples,
   buffer |-> [i \in 1..sizeInSamples |-> 0],
   writePos |-> 0,
   readPos |-> 0]

getAvailableData(rb) == (rb.writePos - rb.readPos + rb.size) % rb.size

\* a buffer that reports all of its slots as free space
getAvailableSpaceNoReserve(rb) == rb.size - getAvailableData(rb)

getAvailableSpace(rb) == rb.size - getAvailableData(rb) - 1

RECURSIVE WriteLoop(_, _, _)
\* the for loop of write, from index i (1-based) on
WriteLoop(rb, data, i) ==
  IF i > Len(data) THEN rb
  ELSE WriteLoop([rb EXCEPT !.buffer[rb.writePos + 1] = data[i],
                            !.writePos = (rb.writePos + 1) % rb.size],
                 data, i + 1)

\* write that stores what fits and fails afterwards
writePartial(rb, data) ==
  IF Len(data) > getAvailableSpace(rb)
    THEN [ok |-> FALSE, rb |-> WriteLoop(rb, SubSeq(data, 1, getAvailableSpace(rb)), 1)]
    ELSE [ok |-> TRUE, rb |-> WriteLoop(rb, data, 1)]

\* write(data): the result and the buffer afterwards
write(rb, data) ==
  IF Len(data) > getAvailableSpace(rb)
    THEN [ok |-> FALSE, rb |-> rb]
    ELSE [ok |-> TRUE, rb |-> WriteLoop(rb, data, 1)]

RECURSIVE ReadLoop(_, _, _)
\* the for loop of read: toRead slots still to copy, result so far
ReadLoop(rb, toRead, result) ==
  IF toRead = 0 THEN [result |-> result, rb |-> rb]
  ELSE ReadLoop([rb EXCEPT !.readPos = (rb.readPos + 1) % rb.size],
                toRead - 1, Append(result, rb.buffer[rb.readPos + 1]))

\* read that trusts the requested count
readUnchecked(rb, samples) == ReadLoop(rb, samples, <<>>)

\* a sequence back to front
Reverse(s) == [i \in 1..Len(s) |-> s[Len(s) + 1 - i]]

\* read that returns the newest sample first
readNewestFirst(rb, samples) ==
  LET r == ReadLoop(rb, Min(samples, getAvailableData(rb)), <<>>)
  IN  [result |-> Reverse(r.result), rb |-> r.rb]

\* read(samples): the samples returned and the buffer afterwards
read(rb, samples) ==
  ReadLoop(rb, Min(samples, getAvailableData(rb)), <<>>)

clear(rb) == [rb EXCEPT !.writePos = 0, !.readPos = 0]

\* the samples between the read cursor and the write cursor, oldest first
Contents(rb) ==
  [i \in 1..getAvailableData(rb) |-> rb.buffer[((rb.readPos + i - 1) % rb.size) + 1]]

----------------------------------------------------------------------------
(* VoiceActivityDetector, constructed with its default arguments.           *)

\* thresholds on the root-mean-square energy, in thousandths
energyThreshold == 10
silenceThreshold == 5
\* milliseconds
minSpeechDuration == 300
minSilenceDuration == 500

RECURSIVE SumSquares(_, _)
\* the loop of calculateEnergy, from index i on
SumSquares(audioData, i) ==
  IF i > Len(audioData) THEN 0
  ELSE audioData[i] * audioData[i] + SumSquares(audioData, i + 1)

\* energy > energyThreshold, where energy = sqrt(sum / length); the energy of
\* an empty block is NaN, which compares false
EnergyAbove(audioData, threshold) ==
  /\ Len(audioData) > 0
  /\ SumSquares(audioData, 1) > threshold * threshold * Len(audioData)

\* energy < threshold
EnergyBelow(audioData, threshold) ==
  /\ Len(audioData) > 0
  /\ SumSquares(audioData, 1) < threshold * threshold * Len(audioData)

\* a detector that notes when silence starts but never leaves speaking
VadStepNoSilenceTimeout(v, audioData, timestamp) ==
  IF EnergyAbove(audioData, energyThreshold)
    THEN [isSpeaking |-> TRUE,
          speechStartTime |-> IF ~v.isSpeaking THEN timestamp ELSE v.speechStartTime,
          silenceStartTime |-> 0]
  ELSE IF EnergyBelow(audioData, silenceThreshold)
            /\ v.isSpeaking /\ v.silenceStartTime = 0
    THEN [v EXCEPT !.silenceStartTime = timestamp]
  ELSE v

\* a detector that restarts the speech at every loud block
VadStepRestartsSpeech(v, audioData, timestamp) ==
  IF EnergyAbove(audioData, energyThreshold)
    THEN [isSpeaking |-> TRUE, speechStartTime |-> timestamp, silenceStartTime |-> 0]
  ELSE IF EnergyBelow(audioData, silenceThreshold)
    THEN LET s == IF v.isSpeaking /\ v.silenceStartTime = 0
                    THEN [v EXCEPT !.silenceStartTime = timestamp]
                    ELSE v
         IN  IF s.isSpeaking /\ s.silenceStartTime > 0
                /\ (timestamp - s.silenceStartTime) > minSilenceDuration
               THEN [isSpeaking |-> FALSE, speechStartTime |-> 0, silenceStartTime |-> 0]
               ELSE s
  ELSE v

\* a detector that leaves speaking once the silence has lasted the minimum
VadStepSilenceInclusive(v, audioData, timestamp) ==
  IF EnergyAbove(audioData, energyThreshold)
    THEN [isSpeaking |-> TRUE,
          speechStartTime |-> IF ~v.isSpeaking THEN timestamp ELSE v.speechStartTime,
          silenceStartTime |-> 0]
  ELSE IF EnergyBelow(audioData, silenceThreshold)
    THEN LET s == IF v.isSpeaking /\ v.silenceStartTime = 0
                    THEN [v EXCEPT !.silenceStartTime = timestamp]
                    ELSE v
         IN  IF s.isSpeaking /\ s.silenceStartTime > 0
                /\ (timestamp - s.silenceStartTime) >= minSilenceDuration
               THEN [isSpeaking |-> FALSE, speechStartTime |-> 0, silenceStartTime |-> 0]
               ELSE s
  ELSE v

\* a detector for which a block at the speech threshold is speech
VadStepThresholdIsSpeech(v, audioData, timestamp) ==
  IF ~EnergyBelow(audioData, energyThreshold) /\ Len(audioData) > 0
    THEN [isSpeaking |-> TRUE,
          speechStartTime |-> IF ~v.isSpeaking THEN timestamp ELSE v.speechStartTime,
          silenceStartTime |-> 0]
  ELSE IF EnergyBelow(audioData, silenceThreshold)
    THEN LET s == IF v.isSpeaking /\ v.silenceStartTime = 0
                    THEN [v EXCEPT !.silenceStartTime = timestamp]
                    ELSE v
         IN  IF s.isSpeaking /\ s.silenceStartTime > 0
                /\ (timestamp - s.silenceStartTime) > minSilenceDuration
               THEN [isSpeaking |-> FALSE, speechStartTime |-> 0, silenceStartTime |-> 0]
               ELSE s
  ELSE v

\* the detector's state after the if / else-if of processAudio
VadStep(v, audioData, timestamp) ==
  IF EnergyAbove(audioData, energyThreshold)
    THEN [isSpeaking |-> TRUE,
          speechStartTime |-> IF ~v.isSpeaking THEN timestamp ELSE v.speechStartTime,
          silenceStartTime |-> 0]
  ELSE IF EnergyBelow(audioData, silenceThreshold)
    THEN LET s == IF v.isSpeaking /\ v.silenceStartTime = 0
                    THEN [v EXCEPT !.silenceStartTime = timestamp]
                    ELSE v
         IN  IF s.isSpeaking /\ s.silenceStartTime > 0
                /\ (timestamp - s.silenceStartTime) > minSilenceDuration
               THEN [isSpeaking |-> FALSE, speechStartTime |-> 0, silenceStartTime |-> 0]
               ELSE s
  ELSE v

\* processAudio that reports speech as soon as the detector is speaking
processAudioNoDebounce(v, audioData, timestamp) ==
  LET s == VadStep(v, audioData, timestamp)
  IN  [hasVoice |-> s.isSpeaking, vad |-> s]

\* processAudio(audioData, timestamp): the result and the detector afterwards
processAudio(v, audioData, timestamp) ==
  LET s == VadStep(v, audioData, timestamp)
  IN  [hasVoice |-> s.isSpeaking /\ (timestamp - s.speechStartTime) > minSpeechDuration,
       vad |-> s]

----------------------------------------------------------------------------
(* AudioCaptureManager                                                      *)

\* the seconds of audio the ring buffer is sized for
BufferSeconds == 10

\* what the native module's operations may do: return true, return false, throw
DriverOutcomes == {"true", "false", "throw"}

NativeHandle == [loaded |-> TRUE]

\* the capture configurations a client may ask for
Configs ==
  {c \in [deviceId : {"default"}, sampleRate : 1..MaxSamplesPerSecond,
          channels : 1..MaxSamplesPerSecond, bufferSizeMs : {100}] :
     c.sampleRate * c.channels <= MaxSamplesPerSecond}

Event(name, payload) == [name |-> name, payload |-> payload]

----------------------------------------------------------------------------
(* What a handler reports: its name, whether it returned normally (for      *)
(* write and for a call of the detector: its boolean result), the error     *)
(* code thrown, its argument (the     *)
(* length written, the count asked of read, the arguments of a request; for *)
(* a drain cycle, the number of entries it found in the history; for a call *)
(* of the detector, its timestamp and the detector it found; for a diff of  *)
(* device caches, the old cache), the samples                               *)
(* returned (for a call of the detector: the block passed), the events      *)
(* emitted and the driver operations invoked, in order.                     *)

Op(name, ok, error, n, ret, events, driver) ==
  [op |-> name, ok |-> ok, error |-> error, n |-> n, ret |-> ret,
   events |-> events, driver |-> driver]

\* a Map with no entry
EmptyMap == [key \in {} |-> 0]

NewVad == [isSpeaking |-> FALSE, speechStartTime |-> 0, silenceStartTime |-> 0]

\* the fields of a freshly constructed AudioCaptureManager (and the empty
\* cache of a freshly constructed AudioDeviceManager)
InitManager ==
  /\ nativeModule = Null
  /\ vad = NewVad
  /\ isCapturing = FALSE
  /\ currentConfig = Null
  /\ audioChunks = <<>>
  /\ processingInterval = Null
  /\ listenersAttached = FALSE
  /\ liveTimers = {}
  /\ callbackSet = FALSE
  /\ now = ClockStep
  /\ cleanupPending = FALSE
  /\ lastOp = Op("new", TRUE, "none", 0, <<>>, <<>>, <<>>)
  /\ totalWritten = 0
  /\ totalRead = 0
  /\ delivered = 0
  /\ devices = <<>>
  /\ defaultDeviceId = <<>>
  /\ isMonitoring = FALSE
  /\ monitoringInterval = Null
  /\ lastDeviceSnapshot = <<>>
  /\ services = {}
  /\ transcripts = <<>>
  /\ isInitialized = FALSE
  /\ continuousTranscription = FALSE
  /\ audioBuffer = <<>>
  /\ inFlight = <<>>
  /\ chunkCount = 0
  /\ samplesIn = <<>>
  /\ samplesOut = <<>>
  /\ errorCounts = EmptyMap
  /\ lastErrors = EmptyMap
  /\ pendingRetries = <<>>

----------------------------------------------------------------------------
(* The ring buffer on its own: any sequence of write, read and clear.       *)

InitRing ==
  /\ InitManager
  /\ driverList = <<>>
  /\ \E n \in 1..MaxRingSize : ringBuffer = NewRingBuffer(n)

RingWrite ==
  \E data \in SeqsUpTo(RingLevels, MaxBlock) :
    LET w == write(ringBuffer, data) IN
      /\ w.ok => totalWritten + Len(data) <= MaxAccepted
      /\ ringBuffer' = w.rb
      /\ totalWritten' = IF w.ok THEN totalWritten + Len(data) ELSE totalWritten
      /\ lastOp' = Op("write", w.ok, "none", Len(data), <<>>, <<>>, <<>>)
      /\ UNCHANGED <<devVars, mgrVars, envVars, totalRead, delivered>>

RingRead ==
  \E samples \in 0..MaxBlock :
    LET r == read(ringBuffer, samples) IN
      /\ ringBuffer' = r.rb
      /\ totalRead' = totalRead + Len(r.result)
      /\ lastOp' = Op("read", TRUE, "none", samples, r.result, <<>>, <<>>)
      /\ UNCHANGED <<devVars, mgrVars, envVars, totalWritten, delivered>>

RingClear ==
  /\ ringBuffer' = clear(ringBuffer)
  /\ lastOp' = Op("clear", TRUE, "none", 0, <<>>, <<>>, <<>>)
  /\ UNCHANGED <<devVars, mgrVars, envVars, totalWritten, totalRead, delivered>>

NextRing == RingWrite \/ RingRead \/ RingClear

SpecRing == InitRing /\ [][NextRing]_vars

----------------------------------------------------------------------------
(* The ring buffer between its writer and its reader: deliveries write,     *)
(* drains read, in any order, and every sample is remembered as it goes in  *)
(* and as it comes out.                                                     *)

FifoWrite ==
  \E data \in SeqsUpTo(RingLevels, MaxBlock) :
    LET w == write(ringBuffer, data) IN
      /\ w.ok => Len(samplesIn) + Len(data) <= MaxAccepted
      /\ ringBuffer' = w.rb
      /\ samplesIn' = IF w.ok THEN samplesIn \o data ELSE samplesIn
      /\ lastOp' = Op("write", w.ok, "none", Len(data), <<>>, <<>>, <<>>)
      /\ UNCHANGED <<mgrVars, envVars, obsTotals, devices, defaultDeviceId,
                     isMonitoring, monitoringInterval, lastDeviceSnapshot,
                     speechVars, samplesOut, driverList, errorVars>>

FifoRead ==
  \E samples \in 0..MaxBlock :
    LET r == read(ringBuffer, samples) IN
      /\ ringBuffer' = r.rb
      /\ samplesOut' = samplesOut \o r.result
      /\ lastOp' = Op("read", TRUE, "none", samples, r.result, <<>>, <<>>)
      /\ UNCHANGED <<mgrVars, envVars, obsTotals, devices, defaultDeviceId,
                     isMonitoring, monitoringInterval, lastDeviceSnapshot,
                     speechVars, samplesIn, driverList, errorVars>>

NextFifo == FifoWrite \/ FifoRead

SpecFifo == InitRing /\ [][NextFifo]_vars

----------------------------------------------------------------------------
(* The manager's handlers, as functions of the manager's fields m (with the *)
(* event loop's intervals, which setInterval and clearInterval change).     *)
(* Each returns the fields afterwards and what the handler reports.         *)

Self ==
  [nativeModule |-> nativeModule, ringBuffer |-> ringBuffer, vad |-> vad,
   isCapturing |-> isCapturing, currentConfig |-> currentConfig,
   audioChunks |-> audioChunks, processingInterval |-> processingInterval,
   listenersAttached |-> listenersAttached, liveTimers |-> liveTimers]

\* the handler returned normally
Returned(m, n, ret, events, driver) ==
  [m |-> m, ok |-> TRUE, error |-> "none", n |-> n, ret |-> ret,
   events |-> events, driver |-> driver]

\* the handler threw an error with this code
Threw(m, error, driver) ==
  [m |-> m, ok |-> FALSE, error |-> error, n |-> 0, ret |-> <<>>,
   events |-> <<>>, driver |-> driver]

\* the handle setInterval returns: one that is not scheduled yet
NewTimer(timers) ==
  [id |-> CHOOSE n \in 1..(Cardinality(timers) + 1) : [id |-> n] \notin timers]

\* initialize that also drops the running session's capturing flag
initializeResets(m, initOk) ==
  LET a == [m EXCEPT !.nativeModule = NativeHandle, !.isCapturing = FALSE]
  IN  IF ~initOk THEN Threw(a, "AUDIO_CAPTURE_FAILED", <<"initialize">>)
      ELSE Returned(a, 0, <<>>, <<>>, <<"initialize", "setAudioCallback">>)

\* initialize(): loadNativeModule always yields a module (the mock when the
\* build is missing); initOk is what its initialize() returns
initialize(m, initOk) ==
  LET a == [m EXCEPT !.nativeModule = NativeHandle]
  IN  IF ~initOk THEN Threw(a, "AUDIO_CAPTURE_FAILED", <<"initialize">>)
      ELSE Returned(a, 0, <<>>, <<>>, <<"initialize", "setAudioCallback">>)

\* startAudioProcessing that schedules an interval it does not remember
startAudioProcessingTwice(m) ==
  LET forgotten == NewTimer(m.liveTimers)
      t == NewTimer(m.liveTimers \cup {forgotten})
  IN  [m EXCEPT !.processingInterval = t, !.liveTimers = @ \cup {forgotten, t}]

\* startAudioProcessing()
startAudioProcessing(m) ==
  LET t == NewTimer(m.liveTimers)
  IN  [m EXCEPT !.processingInterval = t, !.liveTimers = @ \cup {t}]

\* startCapture that does not look at isCapturing
startCaptureNoGuard(m, config, outcome) ==
  IF m.nativeModule = Null THEN Threw(m, "AUDIO_CAPTURE_FAILED", <<>>)
  ELSE
    LET a == [m EXCEPT !.ringBuffer =
                NewRingBuffer(config.sampleRate * config.channels * BufferSeconds)]
    IN  IF outcome = "throw" THEN Threw(a, "native", <<"startCapture">>)
        ELSE IF outcome = "false"
          THEN Threw(a, "AUDIO_CAPTURE_FAILED", <<"startCapture">>)
        ELSE Returned(startAudioProcessing(
                        [a EXCEPT !.currentConfig = config, !.isCapturing = TRUE,
                                  !.audioChunks = <<>>]),
                      0, <<>>, <<Event("captureStarted", config)>>,
                      <<"startCapture">>)

\* startCapture(config); outcome is what the native startCapture does
startCapture(m, config, outcome) ==
  IF m.isCapturing THEN Threw(m, "AUDIO_CAPTURE_FAILED", <<>>)
  ELSE IF m.nativeModule = Null THEN Threw(m, "AUDIO_CAPTURE_FAILED", <<>>)
  ELSE
    LET a == [m EXCEPT !.ringBuffer =
                NewRingBuffer(config.sampleRate * config.channels * BufferSeconds)]
    IN  IF outcome = "throw" THEN Threw(a, "native", <<"startCapture">>)
        ELSE IF outcome = "false"
          THEN Threw(a, "AUDIO_CAPTURE_FAILED", <<"startCapture">>)
        ELSE Returned(startAudioProcessing(
                        [a EXCEPT !.currentConfig = config, !.isCapturing = TRUE,
                                  !.audioChunks = <<>>]),
                      0, <<>>, <<Event("captureStarted", config)>>,
                      <<"startCapture">>)

\* stopCapture that leaves its interval scheduled
stopCaptureKeepTimer(m, outcome) ==
  IF ~m.isCapturing THEN Returned(m, 0, <<>>, <<>>, <<>>)
  ELSE IF m.nativeModule # Null /\ outcome = "throw"
    THEN Threw(m, "native", <<"stopCapture">>)
  ELSE Returned([m EXCEPT !.isCapturing = FALSE, !.currentConfig = Null,
                          !.processingInterval = Null, !.ringBuffer = Null],
                0, <<>>, <<Event("captureStopped", <<>>)>>,
                IF m.nativeModule # Null THEN <<"stopCapture">> ELSE <<>>)

\* stopCapture that does not look at isCapturing
stopCaptureNoGuard(m, outcome) ==
  IF m.nativeModule # Null /\ outcome = "throw"
    THEN Threw(m, "native", <<"stopCapture">>)
  ELSE Returned([m EXCEPT !.isCapturing = FALSE, !.currentConfig = Null,
                          !.processingInterval = Null,
                          !.liveTimers = IF m.processingInterval # Null
                                           THEN @ \ {m.processingInterval} ELSE @,
                          !.ringBuffer = Null],
                0, <<>>, <<Event("captureStopped", <<>>)>>,
                IF m.nativeModule # Null THEN <<"stopCapture">> ELSE <<>>)

\* stopCapture(); outcome is what the native stopCapture does (its boolean
\* result is not looked at)
stopCapture(m, outcome) ==
  IF ~m.isCapturing THEN Returned(m, 0, <<>>, <<>>, <<>>)
  ELSE IF m.nativeModule # Null /\ outcome = "throw"
    THEN Threw(m, "native", <<"stopCapture">>)
  ELSE Returned([m EXCEPT !.isCapturing = FALSE, !.currentConfig = Null,
                          !.processingInterval = Null,
                          !.liveTimers = IF m.processingInterval # Null
                                           THEN @ \ {m.processingInterval} ELSE @,
                          !.ringBuffer = Null],
                0, <<>>, <<Event("captureStopped", <<>>)>>,
                IF m.nativeModule # Null THEN <<"stopCapture">> ELSE <<>>)

\* getAudioStream(): the stream's start attaches the listeners
getAudioStream(m) ==
  IF ~m.isCapturing THEN Threw(m, "AUDIO_CAPTURE_FAILED", <<>>)
  ELSE Returned([m EXCEPT !.listenersAttached = TRUE], 0, <<>>, <<>>, <<>>)

\* cleanup() after its await of stopCapture(); outcome is what the native
\* cleanup does
cleanupRest(m, outcome) ==
  IF m.nativeModule # Null /\ outcome = "throw" THEN Threw(m, "native", <<"cleanup">>)
  ELSE Returned([m EXCEPT !.nativeModule = Null, !.listenersAttached = FALSE],
                0, <<>>, <<>>,
                IF m.nativeModule # Null THEN <<"cleanup">> ELSE <<>>)

\* onAudioData that stops the capture when the buffer overflows
onAudioDataStopOnOverflow(m, audioData, aligned) ==
  IF ~m.isCapturing \/ m.ringBuffer = Null \/ m.currentConfig = Null
    THEN Returned(m, 0, <<>>, <<>>, <<>>)
  ELSE IF ~aligned
    THEN [Returned(m, 0, <<>>, <<>>, <<>>) EXCEPT !.error = "RangeError"]
  ELSE LET w == write(m.ringBuffer, audioData)
       IN  IF w.ok
             THEN Returned([m EXCEPT !.ringBuffer = w.rb], 0, <<>>, <<>>, <<>>)
             ELSE Returned([m EXCEPT !.isCapturing = FALSE], 0, <<>>,
                           <<Event("bufferOverflow", <<>>)>>, <<>>)

\* onAudioData that stores as much of an oversized delivery as fits
onAudioDataKeepWhatFits(m, audioData, aligned) ==
  IF ~m.isCapturing \/ m.ringBuffer = Null \/ m.currentConfig = Null
    THEN Returned(m, 0, <<>>, <<>>, <<>>)
  ELSE IF ~aligned
    THEN [Returned(m, 0, <<>>, <<>>, <<>>) EXCEPT !.error = "RangeError"]
  ELSE LET w == writePartial(m.ringBuffer, audioData)
       IN  Returned([m EXCEPT !.ringBuffer = w.rb], 0, <<>>,
                    IF w.ok THEN <<>> ELSE <<Event("bufferOverflow", <<>>)>>, <<>>)

\* onAudioData(audioData): audioData holds the float32 samples of the Buffer;
\* aligned says that its byteOffset is a multiple of 4 (the Float32Array
\* constructor throws a RangeError otherwise, which the handler catches)
onAudioData(m, audioData, aligned) ==
  IF ~m.isCapturing \/ m.ringBuffer = Null \/ m.currentConfig = Null
    THEN Returned(m, 0, <<>>, <<>>, <<>>)
  ELSE IF ~aligned
    THEN [Returned(m, 0, <<>>, <<>>, <<>>) EXCEPT !.error = "RangeError"]
  ELSE LET w == write(m.ringBuffer, audioData)
       IN  Returned([m EXCEPT !.ringBuffer = w.rb], 0, <<>>,
                    IF w.ok THEN <<>> ELSE <<Event("bufferOverflow", <<>>)>>, <<>>)

\* slice(-maxChunks); slice(-0) is slice(0), the whole array
LastN(s, k) ==
  IF k = 0 \/ Len(s) <= k THEN s ELSE SubSeq(s, Len(s) - k + 1, Len(s))

\* processAudioChunks that drains whatever is buffered, a full second or not
processAudioChunksPartial(m, timestamp) ==
  IF m.ringBuffer = Null \/ m.currentConfig = Null
    THEN Returned(m, 0, <<>>, <<>>, <<>>)
  ELSE
    LET samplesPerChunk == m.currentConfig.sampleRate * m.currentConfig.channels
    IN  IF getAvailableData(m.ringBuffer) > 0
          THEN LET r == read(m.ringBuffer, samplesPerChunk)
                   v == processAudio(m.vad, r.result, timestamp)
                   chunk == [data |-> r.result, timestamp |-> timestamp,
                             duration |-> 1000,
                             sampleRate |-> m.currentConfig.sampleRate,
                             channels |-> m.currentConfig.channels]
                   a == [m EXCEPT !.ringBuffer = r.rb, !.vad = v.vad]
               IN  IF v.hasVoice
                     THEN Returned([a EXCEPT !.audioChunks =
                                      LastN(Append(m.audioChunks, chunk), HistoryLimit)],
                                   0, <<>>, <<Event("audioChunk", chunk)>>, <<>>)
                     ELSE Returned(a, 0, <<>>, <<>>, <<>>)
          ELSE Returned(m, 0, <<>>, <<>>, <<>>)

\* processAudioChunks that emits every second it reads, voiced or not
processAudioChunksNoVad(m, timestamp) ==
  IF m.ringBuffer = Null \/ m.currentConfig = Null
    THEN Returned(m, 0, <<>>, <<>>, <<>>)
  ELSE
    LET samplesPerChunk == m.currentConfig.sampleRate * m.currentConfig.channels
    IN  IF getAvailableData(m.ringBuffer) >= samplesPerChunk
          THEN LET r == read(m.ringBuffer, samplesPerChunk)
                   v == processAudio(m.vad, r.result, timestamp)
                   chunk == [data |-> r.result, timestamp |-> timestamp,
                             duration |-> 1000,
                             sampleRate |-> m.currentConfig.sampleRate,
                             channels |-> m.currentConfig.channels]
                   a == [m EXCEPT !.ringBuffer = r.rb, !.vad = v.vad]
               IN  Returned([a EXCEPT !.audioChunks =
                               LastN(Append(m.audioChunks, chunk), HistoryLimit)],
                            0, <<>>, <<Event("audioChunk", chunk)>>, <<>>)
          ELSE Returned(m, 0, <<>>, <<>>, <<>>)

\* processAudioChunks that puts back a second the detector did not accept
processAudioChunksPutsBack(m, timestamp) ==
  IF m.ringBuffer = Null \/ m.currentConfig = Null
    THEN Returned(m, 0, <<>>, <<>>, <<>>)
  ELSE
    LET samplesPerChunk == m.currentConfig.sampleRate * m.currentConfig.channels
    IN  IF getAvailableData(m.ringBuffer) >= samplesPerChunk
          THEN LET r == read(m.ringBuffer, samplesPerChunk)
                   v == processAudio(m.vad, r.result, timestamp)
                   chunk == [data |-> r.result, timestamp |-> timestamp,
                             duration |-> 1000,
                             sampleRate |-> m.currentConfig.sampleRate,
                             channels |-> m.currentConfig.channels]
                   a == [m EXCEPT !.ringBuffer = r.rb, !.vad = v.vad]
               IN  IF v.hasVoice
                     THEN Returned([a EXCEPT !.audioChunks =
                                      LastN(Append(m.audioChunks, chunk), HistoryLimit)],
                                   0, <<>>, <<Event("audioChunk", chunk)>>, <<>>)
                     ELSE Returned([m EXCEPT !.vad = v.vad], 0, <<>>, <<>>, <<>>)
          ELSE Returned(m, 0, <<>>, <<>>, <<>>)

\* processAudioChunks that keeps the oldest entries of a full history
processAudioChunksKeepOldest(m, timestamp) ==
  IF m.ringBuffer = Null \/ m.currentConfig = Null
    THEN Returned(m, 0, <<>>, <<>>, <<>>)
  ELSE
    LET samplesPerChunk == m.currentConfig.sampleRate * m.currentConfig.channels
    IN  IF getAvailableData(m.ringBuffer) >= samplesPerChunk
          THEN LET r == read(m.ringBuffer, samplesPerChunk)
                   v == processAudio(m.vad, r.result, timestamp)
                   chunk == [data |-> r.result, timestamp |-> timestamp,
                             duration |-> 1000,
                             sampleRate |-> m.currentConfig.sampleRate,
                             channels |-> m.currentConfig.channels]
                   a == [m EXCEPT !.ringBuffer = r.rb, !.vad = v.vad]
               IN  IF v.hasVoice
                     THEN Returned([a EXCEPT !.audioChunks =
                                      SubSeq(Append(m.audioChunks, chunk), 1,
                                             Min(Len(m.audioChunks) + 1, HistoryLimit))],
                                   0, <<>>, <<Event("audioChunk", chunk)>>, <<>>)
                     ELSE Returned(a, 0, <<>>, <<>>, <<>>)
          ELSE Returned(m, 0, <<>>, <<>>, <<>>)

\* processAudioChunks(); timestamp is Date.now()
processAudioChunks(m, timestamp) ==
  IF m.ringBuffer = Null \/ m.currentConfig = Null
    THEN Returned(m, 0, <<>>, <<>>, <<>>)
  ELSE
    LET samplesPerChunk == m.currentConfig.sampleRate * m.currentConfig.channels
    IN  IF getAvailableData(m.ringBuffer) >= samplesPerChunk
          THEN LET r == read(m.ringBuffer, samplesPerChunk)
                   v == processAudio(m.vad, r.result, timestamp)
                   chunk == [data |-> r.result, timestamp |-> timestamp,
                             duration |-> 1000,
                             sampleRate |-> m.currentConfig.sampleRate,
                             channels |-> m.currentConfig.channels]
                   a == [m EXCEPT !.ringBuffer = r.rb, !.vad = v.vad]
               IN  IF v.hasVoice
                     THEN Returned([a EXCEPT !.audioChunks =
                                      LastN(Append(m.audioChunks, chunk), HistoryLimit)],
                                   0, <<>>, <<Event("audioChunk", chunk)>>, <<>>)
                     ELSE Returned(a, 0, <<>>, <<>>, <<>>)
          ELSE Returned(m, 0, <<>>, <<>>, <<>>)

----------------------------------------------------------------------------
(* The manager in its environment: API calls, the drain timer, the native   *)
(* module's callback and the clock.  JavaScript runs each handler to its    *)
(* end (or to its await) before the next one starts.                        *)

Init ==
  /\ InitManager
  /\ ringBuffer = Null
  /\ driverList = <<>>

\* the fields after a handler, and its report
Apply(r, name) ==
  /\ nativeModule' = r.m.nativeModule
  /\ ringBuffer' = r.m.ringBuffer
  /\ vad' = r.m.vad
  /\ isCapturing' = r.m.isCapturing
  /\ currentConfig' = r.m.currentConfig
  /\ audioChunks' = r.m.audioChunks
  /\ processingInterval' = r.m.processingInterval
  /\ listenersAttached' = r.m.listenersAttached
  /\ liveTimers' = r.m.liveTimers
  /\ lastOp' = Op(name, r.ok, r.error, r.n, r.ret, r.events, r.driver)

Initialize ==
  \E initOk \in BOOLEAN :
    LET r == initialize(Self, initOk) IN
      /\ Apply(r, "initialize")
      /\ callbackSet' = (callbackSet \/ r.ok)
      /\ UNCHANGED <<devVars, now, cleanupPending, obsTotals>>

StartCapture ==
  \E config \in Configs, outcome \in DriverOutcomes :
    LET r == startCapture(Self, config, outcome) IN
      /\ Apply(r, "startCapture")
      /\ UNCHANGED <<devVars, callbackSet, now, cleanupPending, obsTotals>>

StopCapture ==
  \E outcome \in DriverOutcomes :
    LET r == stopCapture(Self, outcome) IN
      /\ Apply(r, "stopCapture")
      /\ UNCHANGED <<devVars, callbackSet, now, cleanupPending, obsTotals>>

GetAudioStream ==
  LET r == getAudioStream(Self) IN
    /\ Apply(r, "getAudioStream")
    /\ UNCHANGED <<devVars, callbackSet, now, cleanupPending, obsTotals>>

\* cleanup() up to its await: stopCapture() runs, and cleanup rethrows its error
CleanupBegin ==
  /\ ~cleanupPending
  /\ \E outcome \in DriverOutcomes :
       LET r == stopCapture(Self, outcome) IN
         /\ Apply(r, IF r.ok THEN "cleanupAwait" ELSE "cleanup")
         /\ cleanupPending' = r.ok
         /\ UNCHANGED <<devVars, callbackSet, now, obsTotals>>

\* cleanup() resumed after the await
CleanupFinish ==
  /\ cleanupPending
  /\ \E outcome \in DriverOutcomes :
       LET r == cleanupRest(Self, outcome) IN
         /\ Apply(r, "cleanup")
         /\ cleanupPending' = FALSE
         /\ UNCHANGED <<devVars, callbackSet, now, obsTotals>>

\* what the native module may deliver: any short block, or one as long as
\* the ring buffer
Deliveries ==
  (SeqsUpTo(RingLevels, MaxDelivery) \ {<<>>})
    \cup (IF ringBuffer = Null THEN {}
          ELSE {[i \in 1..ringBuffer.size |-> 20]})

\* the native module calls the registered callback (a task of its own: it
\* does not run between cleanup's await and its resumption)
Deliver ==
  /\ callbackSet
  /\ ~cleanupPending
  /\ \E audioData \in Deliveries, aligned \in BOOLEAN :
       LET r == onAudioData(Self, audioData, aligned)
           accepted == r.m.ringBuffer # ringBuffer
       IN  /\ accepted => delivered + Len(audioData) <= MaxDelivered
           /\ Apply(r, "onAudioData")
           /\ delivered' = IF accepted THEN delivered + Len(audioData) ELSE delivered
           /\ UNCHANGED <<devVars, callbackSet, now, cleanupPending, totalWritten, totalRead>>

\* the times Date.now() may show from now on
LaterTimes == {now + k * ClockStep : k \in 0..MaxClockSteps} \cap 0..(ClockStep * (MaxClockSteps + 1))

\* a scheduled interval fires, at a time not before the last one read
Tick ==
  /\ ~cleanupPending
  /\ liveTimers # {}
  /\ \E t \in LaterTimes :
       LET r == processAudioChunks(Self, t) IN
         /\ Apply([r EXCEPT !.n = Len(audioChunks)], "processAudioChunks")
         /\ now' = t
         /\ UNCHANGED <<devVars, callbackSet, cleanupPending, obsTotals>>

Next ==
  \/ Initialize
  \/ StartCapture
  \/ StopCapture
  \/ GetAudioStream
  \/ CleanupBegin
  \/ CleanupFinish
  \/ Deliver
  \/ Tick

Spec == Init /\ [][Next]_vars

----------------------------------------------------------------------------
(* The detector on its own: processAudio called with any block, at          *)
(* timestamps that do not decrease and advance by whole drain intervals.    *)

\* the interval of the drain timer, in milliseconds
chunkIntervalMs == 100

\* amplitudes: silent, at the silence threshold, between the two thresholds,
\* at the speech threshold, loud
VadLevels == {0, 5, 7, 10, 20}

VadBlocks == SeqsUpTo(VadLevels, MaxVadBlock)

VadTimes == {now + k * chunkIntervalMs : k \in 0..MaxVadSkip} \cap 0..MaxVadTime

ProcessAudio ==
  \E audioData \in VadBlocks, timestamp \in VadTimes :
    LET r == processAudio(vad, audioData, timestamp) IN
      /\ vad' = r.vad
      /\ now' = timestamp
      /\ lastOp' = Op("processAudio", r.hasVoice, "none",
                      [timestamp |-> timestamp, found |-> vad], audioData,
                      <<>>, <<>>)
      /\ UNCHANGED <<devVars, nativeModule, ringBuffer, isCapturing, currentConfig,
                     audioChunks, processingInterval, listenersAttached,
                     liveTimers, callbackSet, cleanupPending, obsTotals>>

NextVad == ProcessAudio

SpecVad == Init /\ [][NextVad]_vars

----------------------------------------------------------------------------
(* The request handler of the MCP server for the startAudioCapture and      *)
(* stopAudioCapture tools (audio-mcp-server.ts).  An optional argument is a *)
(* sequence of length 0 (absent) or 1.                                      *)

\* the limits of StartAudioCaptureSchema
MinSampleRate == 8000
MaxSampleRate == 96000
MinChannels == 1
MaxChannels == 2
MinBufferSizeMs == 10
MaxBufferSizeMs == 1000

\* the defaults of handleStartAudioCapture
DefaultSampleRate == 44100
DefaultChannels == 1
DefaultBufferSizeMs == 100

\* z.number().min(lo).max(hi).optional()
OptionalInRange(arg, lo, hi) == arg = <<>> \/ (arg[1] >= lo /\ arg[1] <= hi)

\* a schema without the limits: z.number().optional() for each field
StartAudioCaptureSchemaNoLimits(args) ==
  DOMAIN args = {"sampleRate", "channels", "bufferSizeMs"}

\* StartAudioCaptureSchema.parse(args) does not throw
StartAudioCaptureSchema(args) ==
  /\ OptionalInRange(args.sampleRate, MinSampleRate, MaxSampleRate)
  /\ OptionalInRange(args.channels, MinChannels, MaxChannels)
  /\ OptionalInRange(args.bufferSizeMs, MinBufferSizeMs, MaxBufferSizeMs)

\* arg || default: an absent argument and 0 give the default
OrDefault(arg, default) == IF arg = <<>> \/ arg[1] = 0 THEN default ELSE arg[1]

\* handleStartAudioCapture(args): rethrows what startCapture throws
handleStartAudioCapture(m, args, outcome) ==
  startCapture(m,
               [deviceId |-> "default",
                sampleRate |-> OrDefault(args.sampleRate, DefaultSampleRate),
                channels |-> OrDefault(args.channels, DefaultChannels),
                bufferSizeMs |-> OrDefault(args.bufferSizeMs, DefaultBufferSizeMs)],
               outcome)

\* the tools/call handler for the tool startAudioCapture
callStartAudioCapture(m, args, outcome) ==
  IF ~StartAudioCaptureSchema(args) THEN Threw(m, "ZodError", <<>>)
  ELSE [handleStartAudioCapture(m, args, outcome) EXCEPT !.n = args]

\* the arguments a client sends: values around each limit, and absent ones
SampleRateArgs ==
  {<<1>>, <<MinSampleRate - 1>>, <<MinSampleRate>>, <<MaxSampleRate + 1>>}
ChannelsArgs == {<<>>, <<MinChannels - 1>>, <<MinChannels>>, <<MaxChannels + 1>>}
BufferSizeMsArgs == {<<>>, <<MinBufferSizeMs - 1>>, <<MaxBufferSizeMs + 1>>}

StartRequests ==
  [sampleRate : SampleRateArgs, channels : ChannelsArgs, bufferSizeMs : BufferSizeMsArgs]

\* tools/call startAudioCapture; the handlers are registered once
\* AudioMCPServer.initialize() got through audioCapture.initialize()
CallStartAudioCapture ==
  /\ callbackSet
  /\ \E args \in StartRequests, outcome \in DriverOutcomes :
       LET r == callStartAudioCapture(Self, args, outcome) IN
         /\ Apply([r EXCEPT !.n = args], "startAudioCapture")
         /\ UNCHANGED <<devVars, callbackSet, now, cleanupPending, obsTotals>>

\* tools/call stopAudioCapture
CallStopAudioCapture ==
  /\ callbackSet
  /\ \E outcome \in DriverOutcomes :
       LET r == stopCapture(Self, outcome) IN
         /\ Apply(r, "stopAudioCapture")
         /\ UNCHANGED <<devVars, callbackSet, now, cleanupPending, obsTotals>>

NextServer == Initialize \/ CallStartAudioCapture \/ CallStopAudioCapture

SpecServer == Init /\ [][NextServer]_vars

----------------------------------------------------------------------------
(* AudioDeviceManager (audio-device-manager.ts): the device cache and the   *)
(* diff of two caches.  A Map is the sequence of its values in insertion    *)
(* order; a device's key is its id.                                         *)

DeviceIds == {"A", "B", "C"}

\* the interval of the device poll, in milliseconds
pollIntervalMs == 2000

Devices == [id : DeviceIds, isDefault : BOOLEAN, isEnabled : BOOLEAN]

\* the device lists the native module may return: at most one default endpoint
NativeDeviceLists ==
  {l \in SeqsUpTo(Devices, MaxDevices) :
     Cardinality({i \in DOMAIN l : l[i].isDefault}) <= 1}

\* Map.has(id)
Has(map, id) == \E i \in DOMAIN map : map[i].id = id

\* Map.get(id), for an id the map has
Get(map, id) == map[CHOOSE i \in DOMAIN map : map[i].id = id]

\* Map.set(device.id, device): a key the map has keeps its place
MapSet(map, device) ==
  IF Has(map, device.id)
    THEN [i \in DOMAIN map |-> IF map[i].id = device.id THEN device ELSE map[i]]
    ELSE Append(map, device)

RECURSIVE SetAll(_, _, _)
\* the loop of refreshDeviceList, from index i on
SetAll(map, nativeDevices, i) ==
  IF i > Len(nativeDevices) THEN map
  ELSE SetAll(MapSet(map, nativeDevices[i]), nativeDevices, i + 1)

\* refreshDeviceList(): the cache after clear() and the loop
refreshDeviceList(nativeDevices) == SetAll(<<>>, nativeDevices, 1)

\* Array.from(map.values()).find(d => d.isDefault): the first device marked
\* default, as a sequence of length 0 (undefined) or 1
FindDefault(map) ==
  LET IsDefault(d) == d.isDefault
      marked == SelectSeq(map, IsDefault)
  IN  IF marked = <<>> THEN <<>> ELSE <<marked[1]>>

\* default?.id
DefaultId(map) == IF FindDefault(map) = <<>> THEN <<>> ELSE <<FindDefault(map)[1].id>>

\* the DeviceChangeEvent emitted under an event name
ChangeEvent(name, type, device, timestamp) ==
  Event(name, [type |-> type, device |-> device, timestamp |-> timestamp])

\* detectDeviceChanges that also reports the state of a device it did not
\* know, when that device is disabled
detectDeviceChangesStateOfNew(oldDevices, newDevices, timestamp) ==
  LET IsAdded(d) == ~Has(oldDevices, d.id)
      IsRemoved(d) == ~Has(newDevices, d.id)
      StateChanged(d) ==
        IF Has(oldDevices, d.id) THEN Get(oldDevices, d.id).isEnabled # d.isEnabled
        ELSE ~d.isEnabled
      added == SelectSeq(newDevices, IsAdded)
      removed == SelectSeq(oldDevices, IsRemoved)
      changed == SelectSeq(newDevices, StateChanged)
  IN  [i \in 1..Len(added) |->
         ChangeEvent("deviceAdded", "added", added[i], timestamp)]
      \o [i \in 1..Len(removed) |->
            ChangeEvent("deviceRemoved", "removed", removed[i], timestamp)]
      \o (IF DefaultId(oldDevices) # DefaultId(newDevices)
               /\ FindDefault(newDevices) # <<>>
            THEN <<ChangeEvent("defaultDeviceChanged", "defaultChanged",
                               FindDefault(newDevices)[1], timestamp)>>
            ELSE <<>>)
      \o [i \in 1..Len(changed) |->
            ChangeEvent("deviceStateChanged", "stateChanged", changed[i], timestamp)]

\* detectDeviceChanges(oldDevices, newDevices): the events emitted, in order;
\* timestamp is Date.now()
detectDeviceChanges(oldDevices, newDevices, timestamp) ==
  LET IsAdded(d) == ~Has(oldDevices, d.id)
      IsRemoved(d) == ~Has(newDevices, d.id)
      StateChanged(d) ==
        Has(oldDevices, d.id) /\ Get(oldDevices, d.id).isEnabled # d.isEnabled
      added == SelectSeq(newDevices, IsAdded)
      removed == SelectSeq(oldDevices, IsRemoved)
      changed == SelectSeq(newDevices, StateChanged)
  IN  [i \in 1..Len(added) |->
         ChangeEvent("deviceAdded", "added", added[i], timestamp)]
      \o [i \in 1..Len(removed) |->
            ChangeEvent("deviceRemoved", "removed", removed[i], timestamp)]
      \o (IF DefaultId(oldDevices) # DefaultId(newDevices)
               /\ FindDefault(newDevices) # <<>>
            THEN <<ChangeEvent("defaultDeviceChanged", "defaultChanged",
                               FindDefault(newDevices)[1], timestamp)>>
            ELSE <<>>)
      \o [i \in 1..Len(changed) |->
            ChangeEvent("deviceStateChanged", "stateChanged", changed[i], timestamp)]

\* the diff of a poll, one poll interval after the last: the cache is copied,
\* refreshed from the native module's list and compared with the copy
DetectDeviceChanges ==
  /\ now + pollIntervalMs <= MaxPollTime
  /\ \E nativeDevices \in NativeDeviceLists :
       LET oldDevices == devices
           newDevices == refreshDeviceList(nativeDevices)
       IN  /\ devices' = newDevices
           /\ now' = now + pollIntervalMs
           /\ lastOp' = Op("detectDeviceChanges", TRUE, "none", oldDevices, <<>>,
                           detectDeviceChanges(oldDevices, newDevices, now'), <<>>)
           /\ UNCHANGED <<mgrVars, ringBuffer, liveTimers, callbackSet,
                          cleanupPending, obsTotals, defaultDeviceId,
                          isMonitoring, monitoringInterval, lastDeviceSnapshot,
                          speechVars, fifoVars, driverList, errorVars>>

NextDiff == DetectDeviceChanges

SpecDiff == Init /\ [][NextDiff]_vars

----------------------------------------------------------------------------
(* AudioDeviceManager as a whole: initialize, the queries that refresh the  *)
(* cache, the poll of the monitoring interval and cleanup.  The native      *)
(* module is the environment: each enumeration either fails or returns one  *)
(* of DriverLists.  The queries are called with includeProperties = false.  *)

Device(id, isDefault, isEnabled) ==
  [id |-> id, isDefault |-> isDefault, isEnabled |-> isEnabled]

\* the lists the driver returns: ids are unique within a list, at most one
\* device is marked default
DriverLists ==
  { <<>>,
    <<Device("C", FALSE, FALSE)>>,
    <<Device("B", FALSE, TRUE), Device("A", TRUE, TRUE)>>,
    <<Device("A", TRUE, TRUE), Device("B", FALSE, TRUE)>>,
    <<Device("A", FALSE, FALSE), Device("B", FALSE, TRUE)>>,
    <<Device("A", FALSE, TRUE), Device("B", TRUE, FALSE)>> }

\* the outcome of one getNativeDeviceList(): <<>> when it throws, <<list>>
\* when it returns
Enumerations == {<<>>} \cup {<<l>> : l \in DriverLists}

\* a.id.localeCompare(b.id) < 0
IdRank == [A |-> 1, B |-> 2, C |-> 3]
IdBefore(a, b) == IdRank[a.id] < IdRank[b.id]

RECURSIVE SortById(_)
\* currentDevices.sort((a, b) => a.id.localeCompare(b.id)): a stable sort
SortById(list) ==
  IF list = <<>> THEN <<>>
  ELSE LET rest == SortById(Tail(list))
           IsBefore(x) == IdBefore(x, Head(list))
           NotBefore(x) == ~IdBefore(x, Head(list))
       IN  SelectSeq(rest, IsBefore) \o <<Head(list)>> \o SelectSeq(rest, NotBefore)

\* JSON.stringify of the sorted list, as a sequence of length 1
Snapshot(list) == <<SortById(list)>>

\* the fields of the AudioDeviceManager
DeviceSelf ==
  [devices |-> devices, defaultDeviceId |-> defaultDeviceId,
   isMonitoring |-> isMonitoring, monitoringInterval |-> monitoringInterval,
   lastDeviceSnapshot |-> lastDeviceSnapshot]

\* the defaultDeviceId the loop of refreshDeviceList leaves: the id of the
\* last device marked default
LoopDefaultId(nativeDevices) ==
  LET IsDefault(x) == x.isDefault
      marked == SelectSeq(nativeDevices, IsDefault)
  IN  IF marked = <<>> THEN <<>> ELSE <<marked[Len(marked)].id>>

\* refreshDeviceList that clears the cache before it asks the driver
refreshClearFirst(d, enumeration) ==
  IF enumeration = <<>>
    THEN [d |-> [d EXCEPT !.devices = <<>>, !.defaultDeviceId = <<>>], ok |-> FALSE]
    ELSE [d |-> [d EXCEPT !.devices = refreshDeviceList(enumeration[1]),
                          !.defaultDeviceId = LoopDefaultId(enumeration[1])],
          ok |-> TRUE]

\* refreshDeviceList() as a method: the driver is asked first; when it throws
\* nothing is touched and the error is rethrown
refresh(d, enumeration) ==
  IF enumeration = <<>>
    THEN [d |-> d, ok |-> FALSE]
    ELSE [d |-> [d EXCEPT !.devices = refreshDeviceList(enumeration[1]),
                          !.defaultDeviceId = LoopDefaultId(enumeration[1])],
          ok |-> TRUE]

\* the handle setInterval(..., 2000) returns
PollTimer == [id |-> 1]

\* startDeviceMonitoring()
startDeviceMonitoring(d) ==
  IF d.isMonitoring THEN d
  ELSE [d EXCEPT !.isMonitoring = TRUE, !.monitoringInterval = PollTimer]

\* stopDeviceMonitoring()
stopDeviceMonitoring(d) ==
  IF ~d.isMonitoring THEN d
  ELSE [d EXCEPT !.isMonitoring = FALSE, !.monitoringInterval = Null]

\* what a method of the device manager yields: the fields, whether it
\* returned normally, what it returned and the events it emitted
DeviceResult(d, ok, ret, events) ==
  [d |-> d, ok |-> ok, ret |-> ret, events |-> events]

\* initialize()
\* an initialize() that starts the monitoring without loading the list
deviceInitializeNoLoad(d, enumeration) ==
  DeviceResult(startDeviceMonitoring(d), TRUE, <<>>, <<>>)

deviceInitialize(d, enumeration) ==
  LET r == refresh(d, enumeration)
  IN  IF r.ok THEN DeviceResult(startDeviceMonitoring(r.d), TRUE, <<>>, <<>>)
      ELSE DeviceResult(r.d, FALSE, <<>>, <<>>)

\* listDevices()
listDevices(d, enumeration) ==
  LET r == refresh(d, enumeration)
  IN  IF r.ok THEN DeviceResult(r.d, TRUE, r.d.devices, <<>>)
      ELSE DeviceResult(r.d, FALSE, <<>>, <<>>)

\* getDevice(deviceId): the device, or null, as a sequence of length 1 or 0
getDevice(d, deviceId, enumeration) ==
  LET r == refresh(d, enumeration)
  IN  IF ~r.ok THEN DeviceResult(r.d, FALSE, <<>>, <<>>)
      ELSE DeviceResult(r.d, TRUE,
             IF Has(r.d.devices, deviceId) THEN <<Get(r.d.devices, deviceId)>>
             ELSE <<>>, <<>>)

\* getDefaultDevice() that trusts the position in the cache, not the flag
getDefaultDeviceFirst(d, enumeration) ==
  LET r == refresh(d, enumeration)
      IsEnabled(x) == x.isEnabled
      enabled == SelectSeq(r.d.devices, IsEnabled)
  IN  IF ~r.ok THEN DeviceResult(r.d, FALSE, <<>>, <<>>)
      ELSE DeviceResult(r.d, TRUE,
             IF enabled = <<>> THEN <<>> ELSE <<enabled[1]>>, <<>>)

\* getDefaultDevice(): the device, or null, as a sequence of length 1 or 0
getDefaultDevice(d, enumeration) ==
  LET r == refresh(d, enumeration)
      IsEnabled(x) == x.isEnabled
      enabled == SelectSeq(r.d.devices, IsEnabled)
  IN  IF ~r.ok THEN DeviceResult(r.d, FALSE, <<>>, <<>>)
      ELSE IF r.d.defaultDeviceId # <<>>
        THEN DeviceResult(r.d, TRUE,
               IF Has(r.d.devices, r.d.defaultDeviceId[1])
                 THEN <<Get(r.d.devices, r.d.defaultDeviceId[1])>> ELSE <<>>,
               <<>>)
      ELSE DeviceResult(r.d, TRUE,
             IF enabled = <<>> THEN <<>> ELSE <<enabled[1]>>, <<>>)

\* checkForDeviceChanges() that refreshes and compares the caches whatever
\* the snapshot says
checkForDeviceChangesAlways(d, first, second, timestamp) ==
  IF first = <<>> THEN DeviceResult(d, FALSE, <<>>, <<>>)
  ELSE LET r == refresh(d, second)
       IN  IF ~r.ok THEN DeviceResult(d, FALSE, <<>>, <<>>)
           ELSE DeviceResult(
                  [r.d EXCEPT !.lastDeviceSnapshot = Snapshot(first[1])], TRUE, <<>>,
                  detectDeviceChanges(d.devices, r.d.devices, timestamp))

\* checkForDeviceChanges(): first is what its own enumeration yields, second
\* what the enumeration of refreshDeviceList yields; ok is false when an
\* enumeration failed (the error is logged, nothing is thrown)
checkForDeviceChanges(d, first, second, timestamp) ==
  IF first = <<>> THEN DeviceResult(d, FALSE, <<>>, <<>>)
  ELSE IF Snapshot(first[1]) = d.lastDeviceSnapshot
    THEN DeviceResult(d, TRUE, <<>>, <<>>)
  ELSE LET r == refresh(d, second)
       IN  IF ~r.ok THEN DeviceResult(d, FALSE, <<>>, <<>>)
           ELSE DeviceResult(
                  [r.d EXCEPT !.lastDeviceSnapshot = Snapshot(first[1])], TRUE, <<>>,
                  detectDeviceChanges(d.devices, r.d.devices, timestamp))

\* cleanup() of the device manager
deviceCleanup(d) ==
  DeviceResult([stopDeviceMonitoring(d) EXCEPT !.devices = <<>>], TRUE, <<>>, <<>>)

\* a method of the device manager ran: its fields and what it reports; n is
\* the fields it found, driver the enumerations it was given
DeviceApply(r, name, given) ==
  /\ devices' = r.d.devices
  /\ defaultDeviceId' = r.d.defaultDeviceId
  /\ isMonitoring' = r.d.isMonitoring
  /\ monitoringInterval' = r.d.monitoringInterval
  /\ lastDeviceSnapshot' = r.d.lastDeviceSnapshot
  /\ lastOp' = Op(name, r.ok, IF r.ok THEN "none" ELSE "enumeration",
                  DeviceSelf, r.ret, r.events, given)
  /\ UNCHANGED <<mgrVars, ringBuffer, liveTimers, callbackSet, cleanupPending,
                 obsTotals, speechVars, fifoVars, driverList, errorVars>>

DeviceInitialize ==
  \E e \in Enumerations :
    /\ DeviceApply(deviceInitialize(DeviceSelf, e), "deviceInitialize", <<e>>)
    /\ UNCHANGED now

ListDevices ==
  \E e \in Enumerations :
    /\ DeviceApply(listDevices(DeviceSelf, e), "listDevices", <<e>>)
    /\ UNCHANGED now

GetDevice ==
  \E e \in Enumerations, deviceId \in DeviceIds :
    /\ DeviceApply(getDevice(DeviceSelf, deviceId, e), "getDevice", <<e>>)
    /\ UNCHANGED now

GetDefaultDevice ==
  \E e \in Enumerations :
    /\ DeviceApply(getDefaultDevice(DeviceSelf, e), "getDefaultDevice", <<e>>)
    /\ UNCHANGED now

\* the monitoring interval fires, one poll interval after the last
CheckForDeviceChanges ==
  /\ monitoringInterval # Null
  /\ now + pollIntervalMs <= MaxPollTime
  /\ now' = now + pollIntervalMs
  /\ \E first \in Enumerations, second \in Enumerations :
       DeviceApply(checkForDeviceChanges(DeviceSelf, first, second, now'),
                   "checkForDeviceChanges", <<first, second>>)

DeviceCleanup ==
  /\ DeviceApply(deviceCleanup(DeviceSelf), "deviceCleanup", <<>>)
  /\ UNCHANGED now

NextDevices ==
  \/ DeviceInitialize
  \/ ListDevices
  \/ GetDevice
  \/ GetDefaultDevice
  \/ CheckForDeviceChanges
  \/ DeviceCleanup

SpecDevices == Init /\ [][NextDevices]_vars

----------------------------------------------------------------------------
(* The device manager over a driver whose list never changes: every         *)
(* enumeration, of whichever handler, returns driverList.                   *)

InitSteady ==
  /\ InitManager
  /\ ringBuffer = Null
  /\ \E list \in DriverLists : driverList = <<list>>

SteadyInitialize ==
  /\ DeviceApply(deviceInitialize(DeviceSelf, driverList), "deviceInitialize",
                 <<driverList>>)
  /\ UNCHANGED now

SteadyListDevices ==
  /\ isMonitoring
  /\ DeviceApply(listDevices(DeviceSelf, driverList), "listDevices",
                 <<driverList>>)
  /\ UNCHANGED now

SteadyGetDevice ==
  /\ isMonitoring
  /\ \E deviceId \in DeviceIds :
       DeviceApply(getDevice(DeviceSelf, deviceId, driverList), "getDevice",
                   <<driverList>>)
  /\ UNCHANGED now

SteadyGetDefaultDevice ==
  /\ isMonitoring
  /\ DeviceApply(getDefaultDevice(DeviceSelf, driverList), "getDefaultDevice",
                 <<driverList>>)
  /\ UNCHANGED now

SteadyCheckForDeviceChanges ==
  /\ monitoringInterval # Null
  /\ now + pollIntervalMs <= MaxPollTime
  /\ now' = now + pollIntervalMs
  /\ DeviceApply(checkForDeviceChanges(DeviceSelf, driverList, driverList, now'),
                 "checkForDeviceChanges", <<driverList, driverList>>)

NextSteady ==
  \/ SteadyInitialize
  \/ SteadyListDevices
  \/ SteadyGetDevice
  \/ SteadyGetDefaultDevice
  \/ SteadyCheckForDeviceChanges

SpecSteady == InitSteady /\ [][NextSteady]_vars

----------------------------------------------------------------------------
(* SpeechServiceManager (speech-service-manager.ts): the buffered chunks,   *)
(* transcribe() and the transcript history.  Durations are whole            *)
(* milliseconds.  transcribe() is split at its await of the recognition     *)
(* service, whose answer is the environment's.                              *)

\* the cap of addAudioChunk, in milliseconds
maxBufferDuration == 30000

ServiceNames == {"whisper", "azure", "google"}

\* the durations of the chunks pushed
Durations == {10000, 20000, 40000}

\* an AudioChunk; timestamp tells the chunks of a run apart
Chunk(duration, timestamp) == [duration |-> duration, timestamp |-> timestamp]

RECURSIVE TotalDuration(_)
\* chunks.reduce((sum, c) => sum + c.duration, 0)
TotalDuration(chunks) ==
  IF chunks = <<>> THEN 0 ELSE Head(chunks).duration + TotalDuration(Tail(chunks))

RECURSIVE ShiftWhile(_, _)
\* the while loop of addAudioChunk
ShiftWhile(buffer, removeDuration) ==
  IF removeDuration > 0 /\ Len(buffer) > 0
    THEN ShiftWhile(Tail(buffer), removeDuration - Head(buffer).duration)
    ELSE buffer

\* the fields of the SpeechServiceManager; a suspended request holds the
\* request, the array it will be judged by, whether that array is the one
\* audioBuffer still refers to, and the chunks the array held when it was
\* handed to service.transcribe
SpeechSelf ==
  [services |-> services, transcripts |-> transcripts,
   isInitialized |-> isInitialized,
   continuousTranscription |-> continuousTranscription,
   audioBuffer |-> audioBuffer, inFlight |-> inFlight]

\* this.audioBuffer = []: suspended requests keep the array they took
Reassigned(s) ==
  [s EXCEPT !.audioBuffer = <<>>,
            !.inFlight = [i \in DOMAIN s.inFlight |->
                            [s.inFlight[i] EXCEPT !.alias = FALSE]]]

\* the buffer was changed in place: suspended requests that took it see it
InPlace(s, buffer) ==
  [s EXCEPT !.audioBuffer = buffer,
            !.inFlight = [i \in DOMAIN s.inFlight |->
                            IF s.inFlight[i].alias
                              THEN [s.inFlight[i] EXCEPT !.audioChunks = buffer]
                              ELSE s.inFlight[i]]]

\* what a method of the speech manager yields
SpeechResult(s, ok, error, ret, events) ==
  [s |-> s, ok |-> ok, error |-> error, ret |-> ret, events |-> events]

\* initialize(): whisper always, azure and google when configured
speechInitialize(s, configured) ==
  SpeechResult([s EXCEPT !.services = {"whisper"} \cup configured,
                         !.isInitialized = TRUE],
               TRUE, "none", <<>>, <<>>)

\* addAudioChunk that keeps the oldest chunks and refuses the new one
addAudioChunkKeepOldest(s, chunk) ==
  IF TotalDuration(s.audioBuffer) + chunk.duration > maxBufferDuration
    THEN SpeechResult(s, TRUE, "none", <<>>, <<Event("audioChunkAdded", chunk)>>)
    ELSE SpeechResult(InPlace(s, Append(s.audioBuffer, chunk)), TRUE, "none", <<>>,
                      <<Event("audioChunkAdded", chunk)>>)

\* addAudioChunk that removes one chunk at most
addAudioChunkShiftOnce(s, chunk) ==
  LET pushed == Append(s.audioBuffer, chunk)
      kept == IF TotalDuration(pushed) > maxBufferDuration THEN Tail(pushed)
              ELSE pushed
  IN  SpeechResult(InPlace(s, kept), TRUE, "none", <<>>,
                   <<Event("audioChunkAdded", chunk)>>)

\* addAudioChunk(chunk)
addAudioChunk(s, chunk) ==
  LET pushed == Append(s.audioBuffer, chunk)
      totalDuration == TotalDuration(pushed)
      kept == IF totalDuration > maxBufferDuration
                THEN ShiftWhile(pushed, totalDuration - maxBufferDuration)
                ELSE pushed
  IN  SpeechResult(InPlace(s, kept), TRUE, "none", <<>>,
                   <<Event("audioChunkAdded", chunk)>>)

\* service.isAvailable(), for a registered service: it is initialized and
\* its credentials are the ones it was registered with
isAvailable(s, service) == service \in s.services

\* the failure of transcribe() inside its try block
TranscribeFailed(s, error) ==
  SpeechResult(s, FALSE, error, <<>>, <<Event("transcriptionError", error)>>)

\* transcribe(request) up to the await of service.transcribe
transcribeBegin(s, request) ==
  LET chunks == IF request.audioData # <<>> THEN request.audioData[1]
                ELSE s.audioBuffer
  IN  IF ~s.isInitialized
        THEN SpeechResult(s, FALSE, "not initialized", <<>>, <<>>)
      ELSE IF request.service \notin s.services
        THEN TranscribeFailed(s, "not available")
      ELSE IF ~isAvailable(s, request.service)
        THEN TranscribeFailed(s, "is not available")
      ELSE IF Len(chunks) = 0
        THEN TranscribeFailed(s, "no audio data")
      ELSE SpeechResult(
             [s EXCEPT !.inFlight =
                Append(s.inFlight, [request |-> request, audioChunks |-> chunks,
                                    alias |-> request.audioData = <<>>,
                                    handed |-> chunks])],
             TRUE, "none", <<>>, <<>>)

\* s without its i-th suspended request
Resumed(s, i) ==
  [s EXCEPT !.inFlight = SubSeq(s.inFlight, 1, i - 1)
                          \o SubSeq(s.inFlight, i + 1, Len(s.inFlight))]

\* the Transcript stored for a result
Transcript(service, chunks) ==
  [service |-> service, audioChunks |-> Len(chunks),
   duration |-> TotalDuration(chunks)]

\* transcribe() that clears the buffer when the service throws
transcribeEndClearsOnError(s, i, answered) ==
  LET p == s.inFlight[i]
      t == Resumed(s, i)
  IN  IF ~answered THEN TranscribeFailed(Reassigned(t), "transcription failed")
      ELSE LET transcript == Transcript(p.request.service, p.audioChunks)
               stored == [t EXCEPT !.transcripts =
                            LastN(Append(t.transcripts, transcript), HistoryLimit)]
           IN  SpeechResult(IF p.request.continuous THEN stored ELSE Reassigned(stored),
                 TRUE, "none", <<transcript>>,
                 <<Event("transcriptionComplete", transcript)>>)

\* transcribe() that clears the buffer in continuous mode too
transcribeEndClearsAlways(s, i, answered) ==
  LET p == s.inFlight[i]
      t == Resumed(s, i)
  IN  IF ~answered THEN TranscribeFailed(t, "transcription failed")
      ELSE LET transcript == Transcript(p.request.service, p.audioChunks)
               stored == [t EXCEPT !.transcripts =
                            LastN(Append(t.transcripts, transcript), HistoryLimit)]
           IN  SpeechResult(Reassigned(stored), TRUE, "none", <<transcript>>,
                 <<Event("transcriptionComplete", transcript)>>)

\* transcribe() from the answer of service.transcribe on, for the i-th
\* suspended request
transcribeEnd(s, i, answered) ==
  LET p == s.inFlight[i]
      t == Resumed(s, i)
  IN  IF ~answered THEN TranscribeFailed(t, "transcription failed")
      ELSE LET transcript == Transcript(p.request.service, p.audioChunks)
               stored == [t EXCEPT !.transcripts =
                            LastN(Append(t.transcripts, transcript), HistoryLimit)]
           IN  SpeechResult(IF p.request.continuous THEN stored ELSE Reassigned(stored),
                 TRUE, "none", <<transcript>>,
                 <<Event("transcriptionComplete", transcript)>>)

\* startContinuousTranscription(service, language)
startContinuousTranscription(s, service) ==
  SpeechResult([Reassigned(s) EXCEPT !.continuousTranscription = TRUE],
               TRUE, "none", <<>>,
               <<Event("continuousTranscriptionStarted", service)>>)

\* stopContinuousTranscription()
stopContinuousTranscription(s) ==
  SpeechResult([s EXCEPT !.continuousTranscription = FALSE], TRUE, "none", <<>>,
               <<Event("continuousTranscriptionStopped", <<>>)>>)

\* cleanup() of the speech manager
speechCleanup(s) ==
  SpeechResult([Reassigned(s) EXCEPT !.continuousTranscription = FALSE,
                                     !.services = {},
                                     !.transcripts = <<>>,
                                     !.isInitialized = FALSE],
               TRUE, "none", <<>>, <<>>)

\* a method of the speech manager ran: its fields and what it reports; n is
\* the number of chunks it found buffered, driver its argument
SpeechApply(r, name, given) ==
  /\ services' = r.s.services
  /\ transcripts' = r.s.transcripts
  /\ isInitialized' = r.s.isInitialized
  /\ continuousTranscription' = r.s.continuousTranscription
  /\ audioBuffer' = r.s.audioBuffer
  /\ inFlight' = r.s.inFlight
  /\ lastOp' = Op(name, r.ok, r.error, Len(audioBuffer), r.ret, r.events, given)
  /\ UNCHANGED <<mgrVars, ringBuffer, envVars, obsTotals, devices,
                 defaultDeviceId, isMonitoring, monitoringInterval,
                 lastDeviceSnapshot, fifoVars, driverList, errorVars>>

\* the credentials the speech configuration may hold: none
Configured == {{}}

SpeechInitialize ==
  /\ ~isInitialized
  /\ \E configured \in Configured :
       SpeechApply(speechInitialize(SpeechSelf, configured), "speechInitialize",
                   <<configured>>)
  /\ UNCHANGED chunkCount

AddAudioChunk ==
  /\ chunkCount < MaxPushes
  /\ chunkCount' = chunkCount + 1
  /\ \E duration \in Durations :
       SpeechApply(addAudioChunk(SpeechSelf, Chunk(duration, chunkCount')),
                   "addAudioChunk", <<Chunk(duration, chunkCount')>>)

\* the requests a caller makes: with the buffered chunks or with one chunk of
\* its own
TranscriptionRequests ==
  [service : {"whisper"}, continuous : BOOLEAN,
   audioData : {<<>>, << <<Chunk(10000, 0)>> >>}]
  \cup [service : {"azure"}, continuous : {FALSE}, audioData : {<<>>}]

TranscribeBegin ==
  /\ Len(inFlight) < MaxInFlight
  /\ \E request \in TranscriptionRequests :
       LET r == transcribeBegin(SpeechSelf, request)
       IN  SpeechApply(r, IF r.ok THEN "transcribeAwait" ELSE "transcribe",
                       <<request>>)
  /\ UNCHANGED chunkCount

TranscribeEnd ==
  /\ \E i \in DOMAIN inFlight, answered \in BOOLEAN :
       SpeechApply(transcribeEnd(SpeechSelf, i, answered), "transcribe",
                   <<inFlight[i].request>>)
  /\ UNCHANGED chunkCount

StartContinuousTranscription ==
  /\ SpeechApply(startContinuousTranscription(SpeechSelf, "whisper"),
                 "startContinuousTranscription", <<"whisper">>)
  /\ UNCHANGED chunkCount

StopContinuousTranscription ==
  /\ SpeechApply(stopContinuousTranscription(SpeechSelf),
                 "stopContinuousTranscription", <<>>)
  /\ UNCHANGED chunkCount

SpeechCleanup ==
  /\ SpeechApply(speechCleanup(SpeechSelf), "speechCleanup", <<>>)
  /\ UNCHANGED chunkCount

NextSpeech ==
  \/ SpeechInitialize
  \/ AddAudioChunk
  \/ TranscribeBegin
  \/ TranscribeEnd
  \/ StartContinuousTranscription
  \/ StopContinuousTranscription
  \/ SpeechCleanup

SpecSpeech == Init /\ [][NextSpeech]_vars

----------------------------------------------------------------------------
(* ErrorHandler: handleRecoverableError and the retries it leaves suspended *)
(* in retryWithBackoff, which settle later in any order.                    *)

\* the give-up threshold of handleRecoverableError, and the base and the cap
\* of the backoff delay in milliseconds
MaxErrorsBeforeGiveUp == 5
BackoffBaseMs == 1000
BackoffCapMs == 30000

\* errors recorded per key before the model stops raising more, and retries
\* suspended at the same time
MaxErrorCount == 6
MaxPendingRetries == 2

\* Map.get(key) || 0, Map.set and Map.delete
MapGetOrZero(map, key) == IF key \in DOMAIN map THEN map[key] ELSE 0
CountSet(map, key, value) ==
  [k \in DOMAIN map \cup {key} |-> IF k = key THEN value ELSE map[k]]
CountDelete(map, key) == [k \in DOMAIN map \ {key} |-> map[k]]

\* `${context}:${error.code}`, strings being sequences of characters
ErrorKey(context, code) == context \o <<":">> \o code

\* new AudioMCPError(code, message, details, recoverable)
AudioMCPError(code, recoverable) == [code |-> code, recoverable |-> recoverable]

\* the contexts and codes of the errors raised: keys "a:c" and "a:b:c", the
\* second made by two different pairs
ErrorSites == {<< <<"a">>, <<"c">> >>,
               << <<"a">>, <<"b", ":", "c">> >>,
               << <<"a", ":", "b">>, <<"c">> >>}

\* what a caller passes: the error's site and flag, and whether it gives a
\* retry callback (a caller without a callback has no use for the flag)
ErrorRequests ==
  {[site |-> site, recoverable |-> recoverable, retryCallback |-> TRUE] :
     site \in ErrorSites, recoverable \in BOOLEAN}
  \cup {[site |-> << <<"a">>, <<"c">> >>, recoverable |-> TRUE,
         retryCallback |-> FALSE]}

RECURSIVE Power2(_)
Power2(n) == IF n = 0 THEN 1 ELSE 2 * Power2(n - 1)

\* the delay before the callback runs
BackoffDelay(attemptNumber) ==
  Min(BackoffBaseMs * Power2(attemptNumber), BackoffCapMs)

ErrorSelf ==
  [errorCounts |-> errorCounts, lastErrors |-> lastErrors,
   pendingRetries |-> pendingRetries]

ErrorResult(h, ret, events) == [h |-> h, ret |-> ret, events |-> events]

\* a call of retryWithBackoff suspended at its timer
retryWithBackoff(errorKey, attemptNumber) ==
  [errorKey |-> errorKey, attemptNumber |-> attemptNumber,
   delay |-> BackoffDelay(attemptNumber)]

\* a handleRecoverableError that still retries at the fifth recorded error
handleRecoverableErrorGiveUpLate(h, error, context, retryCallback, timestamp) ==
  LET errorKey == ErrorKey(context, error.code)
      count == MapGetOrZero(h.errorCounts, errorKey)
      tracked == [h EXCEPT !.errorCounts = CountSet(@, errorKey, count + 1),
                           !.lastErrors = CountSet(@, errorKey, timestamp)]
  IN  IF count > MaxErrorsBeforeGiveUp THEN ErrorResult(tracked, <<FALSE>>, <<>>)
      ELSE IF retryCallback /\ error.recoverable
      THEN ErrorResult([tracked EXCEPT !.pendingRetries =
                          Append(@, retryWithBackoff(errorKey, count))],
                       <<>>, <<>>)
      ELSE ErrorResult(tracked, <<FALSE>>, <<>>)

\* handleRecoverableError up to the promise it returns: resolved to false
\* (ret = <<FALSE>>), or pending on the retry (ret = <<>>)
handleRecoverableError(h, error, context, retryCallback, timestamp) ==
  LET errorKey == ErrorKey(context, error.code)
      count == MapGetOrZero(h.errorCounts, errorKey)
      tracked == [h EXCEPT !.errorCounts = CountSet(@, errorKey, count + 1),
                           !.lastErrors = CountSet(@, errorKey, timestamp)]
  IN  IF count >= MaxErrorsBeforeGiveUp THEN ErrorResult(tracked, <<FALSE>>, <<>>)
      ELSE IF retryCallback /\ error.recoverable
      THEN ErrorResult([tracked EXCEPT !.pendingRetries =
                          Append(@, retryWithBackoff(errorKey, count))],
                       <<>>, <<>>)
      ELSE ErrorResult(tracked, <<FALSE>>, <<>>)

\* the timer of suspended retry i has fired and the callback has run: the
\* .then() or the .catch() of handleRecoverableError
retrySettled(h, i, succeeded) ==
  LET retry == h.pendingRetries[i]
      rest == [h EXCEPT !.pendingRetries =
                 SubSeq(@, 1, i - 1) \o SubSeq(@, i + 1, Len(@))]
      called == <<[event |-> "retryCallback", payload |-> retry]>>
  IN  IF succeeded
      THEN ErrorResult([rest EXCEPT !.errorCounts = CountDelete(@, retry.errorKey)],
                       <<TRUE>>, called)
      ELSE ErrorResult(rest, <<FALSE>>, called)

ErrorApply(r, name, found, given) ==
  /\ errorCounts' = r.h.errorCounts
  /\ lastErrors' = r.h.lastErrors
  /\ pendingRetries' = r.h.pendingRetries
  /\ lastOp' = Op(name, TRUE, "none", found, r.ret, r.events, given)
  /\ UNCHANGED <<mgrVars, ringBuffer, envVars, obsTotals, devices,
                 defaultDeviceId, isMonitoring, monitoringInterval,
                 lastDeviceSnapshot, speechVars, fifoVars, driverList>>

HandleRecoverableError ==
  \E request \in ErrorRequests :
    LET site == request.site
        recoverable == request.recoverable
        retryCallback == request.retryCallback
        error == AudioMCPError(site[2], recoverable)
        errorKey == ErrorKey(site[1], error.code)
        r == handleRecoverableError(ErrorSelf, error, site[1], retryCallback, now)
    IN  /\ MapGetOrZero(errorCounts, errorKey) < MaxErrorCount
        /\ Len(r.h.pendingRetries) <= MaxPendingRetries
        /\ ErrorApply(r, "handleRecoverableError",
                      MapGetOrZero(errorCounts, errorKey),
                      <<[errorKey |-> errorKey, recoverable |-> recoverable,
                         retryCallback |-> retryCallback]>>)

RetrySettled ==
  \E i \in DOMAIN pendingRetries, succeeded \in BOOLEAN :
    ErrorApply(retrySettled(ErrorSelf, i, succeeded), "retrySettled",
               MapGetOrZero(errorCounts, pendingRetries[i].errorKey),
               <<pendingRetries[i]>>)

NextErrors == HandleRecoverableError \/ RetrySettled

SpecErrors == Init /\ [][NextErrors]_vars

----------------------------------------------------------------------------
(* C1: for a buffer of capacity N, after any sequence of write, read and    *)
(* clear, available() + space() = N - 1, 0 <= available() <= N - 1, and     *)
(* both cursors lie in [0, N).                                              *)
C1_AvailablePlusSpace ==
  /\ getAvailableData(ringBuffer) + getAvailableSpace(ringBuffer) = ringBuffer.size - 1
  /\ getAvailableData(ringBuffer) >= 0
  /\ getAvailableData(ringBuffer) <= ringBuffer.size - 1
  /\ ringBuffer.writePos \in 0..(ringBuffer.size - 1)
  /\ ringBuffer.readPos \in 0..(ringBuffer.size - 1)
  \* the reserved slot: what is accepted and not yet returned fits in N - 1
  /\ getAvailableSpace(ringBuffer) >= 0

\* a buffer that wrapped around: written to, read from, the write cursor
\* behind the read cursor, and data available
C1_Witness ==
  /\ ringBuffer.writePos < ringBuffer.readPos
  /\ getAvailableData(ringBuffer) = ringBuffer.size - 1
  /\ ringBuffer.size = MaxRingSize

(* C2: write(samples) with samples.length > space() returns failure and     *)
(* leaves write cursor, read cursor and every stored sample as they were.   *)
C2_OverflowWriteUnchanged ==
  [][(lastOp'.op = "write" /\ lastOp'.n > getAvailableSpace(ringBuffer))
       => (lastOp'.ok = FALSE /\ ringBuffer' = ringBuffer)]_vars

\* a refused write of a block that an empty buffer would have taken, on a
\* buffer that holds data and has wrapped
C2_Witness ==
  /\ lastOp.op = "write"
  /\ ~lastOp.ok
  /\ lastOp.n <= ringBuffer.size - 1
  /\ getAvailableData(ringBuffer) > 0
  /\ ringBuffer.writePos < ringBuffer.readPos

(* C3: read(count) returns exactly min(count, available()) samples and      *)
(* advances the read cursor by that number, touching nothing else; the      *)
(* total returned by read never exceeds the total accepted by write.        *)
C3_ReadReturnsMin ==
  /\ [][lastOp'.op = "read"
         => /\ Len(lastOp'.ret) = Min(lastOp'.n, getAvailableData(ringBuffer))
            /\ ringBuffer'.readPos =
                 (ringBuffer.readPos + Len(lastOp'.ret)) % ringBuffer.size
            /\ ringBuffer'.writePos = ringBuffer.writePos
            /\ ringBuffer'.buffer = ringBuffer.buffer]_vars
  /\ [](totalRead <= totalWritten)

\* an underfilled read: fewer samples returned than asked for, everything
\* accepted so far now returned, the read cursor having wrapped
C3_Witness ==
  /\ lastOp.op = "read"
  /\ Len(lastOp.ret) > 0
  /\ Len(lastOp.ret) < lastOp.n
  /\ totalRead = totalWritten
  /\ totalRead > ringBuffer.size

----------------------------------------------------------------------------
(* Claims about the manager, under Spec.                                    *)

\* the manager's own fields and its interval, as one value
Session ==
  <<ringBuffer, vad, isCapturing, currentConfig, audioChunks, processingInterval,
    liveTimers, nativeModule, listenersAttached>>

Overflow == <<Event("bufferOverflow", <<>>)>>

\* sampleRate * channels of the running session
SamplesPerSecond == currentConfig.sampleRate * currentConfig.channels

(* C4: after a successful start with sample rate R and channel count C,     *)
(* once deliveries of R*C samples with RMS above the speech threshold are   *)
(* in the buffer, the next drain cycle emits exactly one audioChunk event,  *)
(* carrying those R*C samples tagged with R and C.                          *)
C4_LoudSecondEmitted ==
  [][(/\ lastOp'.op = "processAudioChunks"
      /\ isCapturing /\ ringBuffer # Null /\ currentConfig # Null
      /\ getAvailableData(ringBuffer) = SamplesPerSecond
      /\ EnergyAbove(Contents(ringBuffer), energyThreshold))
       => lastOp'.events =
            <<Event("audioChunk",
                    [data |-> Contents(ringBuffer), timestamp |-> now',
                     duration |-> 1000,
                     sampleRate |-> currentConfig.sampleRate,
                     channels |-> currentConfig.channels])>>]_vars

(* C5, as stated: a delivery longer than the free space raises exactly one  *)
(* bufferOverflow event and the buffer afterwards holds as much of the data *)
(* as it can store: either what was buffered followed by the part of the    *)
(* delivery that fits, or the latest size - 1 samples of what was buffered  *)
(* followed by the delivery.                                                *)
C5_OverflowKeepsWhatFits ==
  (isCapturing /\ ringBuffer # Null /\ currentConfig # Null) =>
    \A audioData \in Deliveries :
      Len(audioData) > getAvailableSpace(ringBuffer) =>
        LET r == onAudioData(Self, audioData, TRUE)
            all == Contents(ringBuffer) \o audioData
            cap == ringBuffer.size - 1
        IN  /\ r.events = Overflow
            /\ \/ Contents(r.m.ringBuffer) = SubSeq(all, 1, cap)
               \/ Contents(r.m.ringBuffer) = SubSeq(all, Len(all) - cap + 1, Len(all))

(* C5, amended: a delivery of float32 samples (at an aligned byte offset)   *)
(* longer than the free space raises exactly one bufferOverflow event and   *)
(* is discarded whole: cursors and stored samples are as before, and the    *)
(* buffer invariant holds.                                                  *)
C5_OverflowDiscardsDelivery ==
  (isCapturing /\ ringBuffer # Null /\ currentConfig # Null) =>
    \A audioData \in Deliveries :
      Len(audioData) > getAvailableSpace(ringBuffer) =>
        LET r == onAudioData(Self, audioData, TRUE)
        IN  /\ r.events = Overflow
            /\ r.m = Self
            /\ getAvailableData(r.m.ringBuffer) + getAvailableSpace(r.m.ringBuffer)
                 = r.m.ringBuffer.size - 1
            /\ r.m.ringBuffer.writePos \in 0..(r.m.ringBuffer.size - 1)
            /\ r.m.ringBuffer.readPos \in 0..(r.m.ringBuffer.size - 1)

\* an overflowing delivery has just been handled, on a buffer that held data
\* and had room for part of the delivery
C5_Witness ==
  /\ lastOp.op = "onAudioData"
  /\ lastOp.events = Overflow
  /\ isCapturing
  /\ getAvailableData(ringBuffer) > 0
  /\ getAvailableSpace(ringBuffer) > 0

(* C6: a buffer overflow on the delivery path never stops capture: after an *)
(* overflowing delivery the manager is still capturing with its drain timer *)
(* scheduled, and a delivery that fits is accepted (appended whole, with no *)
(* event).                                                                  *)
C6_OverflowKeepsCapturing ==
  /\ (lastOp.op = "onAudioData" /\ lastOp.events # <<>>) =>
       /\ lastOp.events = Overflow
       /\ isCapturing
       /\ ringBuffer # Null /\ currentConfig # Null
       /\ processingInterval # Null
       /\ liveTimers = {processingInterval}
  /\ (isCapturing /\ ringBuffer # Null /\ currentConfig # Null) =>
       \A audioData \in Deliveries :
         Len(audioData) <= getAvailableSpace(ringBuffer) =>
           LET r == onAudioData(Self, audioData, TRUE)
           IN  /\ r.events = <<>>
               /\ Contents(r.m.ringBuffer) = Contents(ringBuffer) \o audioData
               /\ r.m = [Self EXCEPT !.ringBuffer = r.m.ringBuffer]

\* right after an overflowing delivery, with room left for a delivery that fits
C6_Witness ==
  /\ lastOp.op = "onAudioData"
  /\ lastOp.events = Overflow
  /\ isCapturing
  /\ \E audioData \in Deliveries : Len(audioData) <= getAvailableSpace(ringBuffer)

(* C7: once stop() has returned, and until the next successful start(), no  *)
(* drain cycle runs and no delivery callback writes into the buffer: the    *)
(* interval is cancelled, so no step of the manager while it is not         *)
(* capturing is a drain cycle, and a delivery changes nothing.              *)
C7_NoWorkAfterStop ==
  /\ []((lastOp.op \in {"stopCapture", "cleanupAwait"} /\ lastOp.ok) =>
          (~isCapturing /\ liveTimers = {} /\ processingInterval = Null))
  /\ [][~isCapturing =>
          /\ lastOp'.op # "processAudioChunks"
          /\ lastOp'.op = "onAudioData" => Session' = Session]_vars

\* a delivery arrives after a session that took data was stopped
C7_Witness ==
  /\ lastOp.op = "onAudioData"
  /\ ~isCapturing
  /\ ringBuffer = Null
  /\ delivered > 0

(* C8: stop() while idle is a no-op: no state changes, the driver's stop is *)
(* not called and captureStopped is not emitted; a stop() that returned     *)
(* leaves the manager idle, so a second stop() is such a no-op.             *)
C8_StopIdleNoOp ==
  /\ [][(lastOp'.op = "stopCapture" /\ ~isCapturing) =>
          /\ lastOp'.ok
          /\ lastOp'.events = <<>>
          /\ lastOp'.driver = <<>>
          /\ Session' = Session
          /\ UNCHANGED <<devVars, envVars, obsTotals>>]_vars
  /\ []((lastOp.op = "stopCapture" /\ lastOp.ok) => ~isCapturing)

\* a stop() that did nothing, after a session that took data
C8_Witness ==
  /\ lastOp.op = "stopCapture"
  /\ lastOp.ok
  /\ lastOp.events = <<>>
  /\ nativeModule # Null
  /\ delivered > 0

(* C9: start(config) while capturing fails with a capture-failed error and  *)
(* leaves the session as it was: buffer and contents, config, history, the  *)
(* one drain timer; the driver's start is not called.                       *)
C9_StartWhileCapturingFails ==
  [][(lastOp'.op = "startCapture" /\ isCapturing) =>
       /\ ~lastOp'.ok
       /\ lastOp'.error = "AUDIO_CAPTURE_FAILED"
       /\ lastOp'.events = <<>>
       /\ lastOp'.driver = <<>>
       /\ Session' = Session
       /\ liveTimers' = {processingInterval'}
       /\ UNCHANGED <<devVars, envVars, obsTotals>>]_vars

\* a refused start() on a session that holds data
C9_Witness ==
  /\ lastOp.op = "startCapture"
  /\ ~lastOp.ok
  /\ isCapturing
  /\ getAvailableData(ringBuffer) > 0

(* C10: when the driver's start-capture operation fails (returns false)     *)
(* during start(), a capture-failed error propagates and the manager is     *)
(* exactly as before the call: idle, no buffer allocated, no config, no     *)
(* drain timer, no captureStarted event.                                    *)
C10_FailedStartLeavesNoTrace ==
  [][(/\ lastOp'.op = "startCapture"
      /\ lastOp'.driver = <<"startCapture">>
      /\ lastOp'.error = "AUDIO_CAPTURE_FAILED")
       => /\ ~lastOp'.ok
          /\ lastOp'.events = <<>>
          /\ ~isCapturing'
          /\ currentConfig' = Null
          /\ processingInterval' = Null /\ liveTimers' = {}
          /\ Session' = Session]_vars

----------------------------------------------------------------------------
(* Claims about start requests, under SpecServer.                           *)

\* some argument of the request is present and outside its limits
OutOfRange(args) ==
  \/ args.sampleRate # <<>>
       /\ (args.sampleRate[1] < MinSampleRate \/ args.sampleRate[1] > MaxSampleRate)
  \/ args.channels # <<>>
       /\ (args.channels[1] < MinChannels \/ args.channels[1] > MaxChannels)
  \/ args.bufferSizeMs # <<>>
       /\ (args.bufferSizeMs[1] < MinBufferSizeMs
             \/ args.bufferSizeMs[1] > MaxBufferSizeMs)

(* C11: a start request whose sample rate is outside 8000..96000, whose     *)
(* channel count is outside 1..2 or whose buffer window is outside 10..1000 *)
(* is rejected with no driver operation invoked, no event emitted and no    *)
(* field of the manager or of its environment changed.                      *)
C11_InvalidStartRejected ==
  [][(lastOp'.op = "startAudioCapture" /\ OutOfRange(lastOp'.n)) =>
       /\ ~lastOp'.ok
       /\ lastOp'.driver = <<>>
       /\ lastOp'.events = <<>>
       /\ Session' = Session
       /\ UNCHANGED <<devVars, envVars, obsTotals>>]_vars

\* a request with only its buffer window out of range, refused while idle
\* with the native module loaded (a start it would otherwise reach the
\* driver with)
C11_Witness ==
  /\ lastOp.op = "startAudioCapture"
  /\ lastOp.n = [sampleRate |-> <<MinSampleRate>>, channels |-> <<>>,
                 bufferSizeMs |-> <<MaxBufferSizeMs + 1>>]
  /\ lastOp.error = "ZodError"
  /\ ~isCapturing
  /\ nativeModule # Null

----------------------------------------------------------------------------
(* Claims about the lifecycle, under Spec.                                  *)

\* the lifecycle state between two handlers; Initializing and Stopping are
\* the insides of startCapture and stopCapture, which have no await
Phase == IF isCapturing THEN "Capturing" ELSE "Idle"

(* C12: Capturing is entered only by a start() that returned, called while  *)
(* Idle; Idle is re-entered only by a stop() or cleanup() that got through  *)
(* stopCapture; a start() that failed while Idle ends Idle; timer ticks,    *)
(* deliveries and every other handler leave the lifecycle state alone.  The *)
(* drain timer and the configuration exist exactly while Capturing.         *)
C12_LifecycleTransitions ==
  /\ [][/\ (Phase = "Idle" /\ Phase' = "Capturing") =>
              (lastOp'.op = "startCapture" /\ lastOp'.ok)
        /\ (Phase = "Capturing" /\ Phase' = "Idle") =>
              (lastOp'.op \in {"stopCapture", "cleanupAwait"} /\ lastOp'.ok)
        /\ (lastOp'.op = "startCapture" /\ ~lastOp'.ok) => Phase' = Phase
        /\ (lastOp'.op = "startCapture" /\ lastOp'.ok) =>
              (Phase = "Idle" /\ Phase' = "Capturing")
        /\ (lastOp'.op \in {"stopCapture", "cleanupAwait"} /\ lastOp'.ok) =>
              Phase' = "Idle"
        /\ (lastOp'.op \in {"processAudioChunks", "onAudioData", "initialize",
                            "getAudioStream"}) => Phase' = Phase]_vars
  /\ [](/\ isCapturing <=> currentConfig # Null
        /\ isCapturing <=> processingInterval # Null
        /\ isCapturing <=> liveTimers # {}
        /\ isCapturing => ringBuffer # Null)

\* a second session: a start() that returned after an earlier session took
\* deliveries and was stopped
C12_Witness ==
  /\ lastOp.op = "startCapture"
  /\ lastOp.ok
  /\ Phase = "Capturing"
  /\ delivered > 0

----------------------------------------------------------------------------
(* Claims about the drain cycle, under Spec.                                *)

(* C13: no partial segment is emitted: every audioChunk event of a drain    *)
(* cycle carries exactly sampleRate * channels samples of the running       *)
(* configuration, and a drain cycle that finds fewer samples buffered reads *)
(* nothing, emits nothing and leaves the buffer, the detector and the       *)
(* history as they were.                                                    *)
C13_NoPartialSegment ==
  [][lastOp'.op = "processAudioChunks" =>
       /\ \A i \in 1..Len(lastOp'.events) :
            /\ lastOp'.events[i].name = "audioChunk"
            /\ Len(lastOp'.events[i].payload.data) = SamplesPerSecond
            /\ Len(lastOp'.events[i].payload.data) =
                 lastOp'.events[i].payload.sampleRate
                   * lastOp'.events[i].payload.channels
       /\ (ringBuffer # Null /\ currentConfig # Null
             /\ getAvailableData(ringBuffer) < SamplesPerSecond) =>
            /\ lastOp'.events = <<>>
            /\ ringBuffer' = ringBuffer
            /\ vad' = vad
            /\ audioChunks' = audioChunks]_vars

\* a drain cycle found one sample of the two a second takes and left it
\* there, the detector being in its speaking state
C13_Witness ==
  /\ lastOp.op = "processAudioChunks"
  /\ lastOp.events = <<>>
  /\ isCapturing
  /\ SamplesPerSecond = 2
  /\ getAvailableData(ringBuffer) = 1
  /\ vad.isSpeaking

(* C14: a drain cycle emits at most one segment; it emits one only when    *)
(* the detector, called in that cycle on the second just read with the      *)
(* cycle's timestamp, returned true; the segment emitted is the one the     *)
(* cycle appended to the history, and a cycle that emits nothing appends    *)
(* nothing.                                                                 *)
C14_AtMostOneVoicedSegment ==
  [][lastOp'.op = "processAudioChunks" =>
       /\ Len(lastOp'.events) <= 1
       /\ lastOp'.events # <<>> =>
            /\ ringBuffer # Null /\ currentConfig # Null
            /\ getAvailableData(ringBuffer) >= SamplesPerSecond
            /\ processAudio(vad, read(ringBuffer, SamplesPerSecond).result,
                            now').hasVoice
            /\ vad'.isSpeaking
            /\ lastOp'.events[1].name = "audioChunk"
            /\ lastOp'.events[1].payload.data =
                 read(ringBuffer, SamplesPerSecond).result
            /\ lastOp'.events[1].payload.timestamp = now'
            /\ audioChunks' # <<>>
            /\ audioChunks'[Len(audioChunks')] = lastOp'.events[1].payload
       /\ lastOp'.events = <<>> => audioChunks' = audioChunks]_vars

\* a drain cycle has just emitted a segment and holds it in its history
C14_Witness ==
  /\ lastOp.op = "processAudioChunks"
  /\ Len(lastOp.events) = 1
  /\ audioChunks # <<>>
  /\ audioChunks[Len(audioChunks)] = lastOp.events[1].payload

----------------------------------------------------------------------------
(* Claims about the detector, under SpecVad.                                *)

RECURSIVE SustainedCall(_, _, _, _)
\* what processAudio returns at t0 + k * chunkIntervalMs when the detector v
\* is passed the same block at t0 and at every drain interval after it
SustainedCall(v, block, t0, k) ==
  IF k = 0 THEN processAudio(v, block, t0)
  ELSE processAudio(SustainedCall(v, block, t0, k - 1).vad, block,
                    t0 + k * chunkIntervalMs)

\* the drain intervals that make up the minimum speech duration
SpeechCycles == minSpeechDuration \div chunkIntervalMs

(* C16: from a detector that is not speaking, with a block above the speech *)
(* threshold at every drain interval, the call one interval short of        *)
(* speech-start + minSpeechDuration returns false and the call one interval *)
(* later, at speech-start + minSpeechDuration exactly, returns true.        *)
C16_BoundaryCalls ==
  ~vad.isSpeaking =>
    \A block \in VadBlocks :
      EnergyAbove(block, energyThreshold) =>
        /\ SustainedCall(vad, block, now, SpeechCycles).vad.speechStartTime = now
        /\ ~SustainedCall(vad, block, now, SpeechCycles - 1).hasVoice
        /\ SustainedCall(vad, block, now, SpeechCycles).hasVoice

(* C17: processAudio returns true only if the detector is speaking after  *)
(* the call and has been speaking without interruption since               *)
(* speechStartTime, at least minSpeechDuration before the call's timestamp: *)
(* speechStartTime is the timestamp of the call that started speech and     *)
(* stays put while the detector goes on speaking.  It returns false when    *)
(* the detector is not speaking after the call and on the call that starts  *)
(* speech.                                                                  *)
C17_TrueOnlyAfterSustainedSpeech ==
  [][lastOp'.op = "processAudio" =>
       /\ lastOp'.ok =>
            /\ vad'.isSpeaking
            /\ vad.isSpeaking
            /\ now' - vad'.speechStartTime >= minSpeechDuration
       /\ (~vad.isSpeaking /\ vad'.isSpeaking) =>
            (vad'.speechStartTime = now' /\ ~lastOp'.ok)
       /\ (vad.isSpeaking /\ vad'.isSpeaking) =>
            vad'.speechStartTime = vad.speechStartTime
       /\ ~vad'.isSpeaking => ~lastOp'.ok]_vars

\* a call returned true on a block between the thresholds, speech having
\* started more than minSpeechDuration before
C17_Witness ==
  /\ lastOp.op = "processAudio"
  /\ lastOp.ok
  /\ lastOp.n.found.isSpeaking
  /\ ~EnergyAbove(lastOp.ret, energyThreshold)
  /\ now - vad.speechStartTime > minSpeechDuration

\* the drain intervals that make up the minimum silence duration
SilenceCycles == minSilenceDuration \div chunkIntervalMs

(* C18: while the detector is speaking, silenceStartTime is the timestamp   *)
(* of the first block below the silence threshold since the last block      *)
(* above the speech threshold; a block below the silence threshold at a     *)
(* timestamp more than minSilenceDuration after it makes the detector       *)
(* not-speaking, and from then on processAudio returns false and the        *)
(* detector stays not-speaking on every block that is not above the speech  *)
(* threshold.  In particular silent blocks at every drain interval over     *)
(* more than minSilenceDuration end speech.                                 *)
C18_SilenceEndsSpeech ==
  /\ [][lastOp'.op = "processAudio" =>
          /\ (vad.isSpeaking /\ vad.silenceStartTime = 0
                /\ EnergyBelow(lastOp'.ret, silenceThreshold)) =>
               (vad'.isSpeaking /\ vad'.silenceStartTime = now')
          /\ (vad.isSpeaking /\ vad.silenceStartTime > 0 /\ vad'.isSpeaking
                /\ ~EnergyAbove(lastOp'.ret, energyThreshold)) =>
               vad'.silenceStartTime = vad.silenceStartTime
          /\ (vad.isSpeaking /\ vad.silenceStartTime > 0
                /\ EnergyBelow(lastOp'.ret, silenceThreshold)
                /\ now' - vad.silenceStartTime > minSilenceDuration) =>
               (~vad'.isSpeaking /\ ~lastOp'.ok)
          /\ (~vad.isSpeaking /\ ~EnergyAbove(lastOp'.ret, energyThreshold)) =>
               (~vad'.isSpeaking /\ ~lastOp'.ok)]_vars
  /\ [](vad.isSpeaking =>
          \A block \in VadBlocks :
            EnergyBelow(block, silenceThreshold) =>
              /\ ~SustainedCall(vad, block, now, SilenceCycles + 1).vad.isSpeaking
              /\ ~SustainedCall(vad, block, now, SilenceCycles + 1).hasVoice)

\* a silent block has just ended speech that had been reported as voiced
C18_Witness ==
  /\ lastOp.op = "processAudio"
  /\ lastOp.n.found.isSpeaking
  /\ lastOp.n.found.silenceStartTime - lastOp.n.found.speechStartTime
       > minSpeechDuration
  /\ EnergyBelow(lastOp.ret, silenceThreshold)
  /\ ~vad.isSpeaking

----------------------------------------------------------------------------
(* Claims about the diff of device caches, under SpecDiff.  After a diff,   *)
(* lastOp.n is the old cache and devices the new one.                       *)

\* the events of the last diff with this name, as positions in lastOp.events
EventsNamed(name) == {i \in DOMAIN lastOp.events : lastOp.events[i].name = name}

\* the events of the last diff with this name about the device with this id
EventsAbout(name, id) ==
  {i \in EventsNamed(name) : lastOp.events[i].payload.device.id = id}

(* C19: one diff raises exactly one 'added' event for each id only in the   *)
(* new cache and none for any other id, exactly one 'removed' event for     *)
(* each id only in the old cache and none for any other id, and exactly one *)
(* 'default-changed' event when the default differs; for old                *)
(* {A (default), B} and new {B, C (default)}, B the same in both, the       *)
(* events are removed(A), added(C) and default-changed(C) and no other.     *)
C19_DiffEventsExact ==
  lastOp.op = "detectDeviceChanges" =>
    /\ \A id \in DeviceIds :
         /\ Cardinality(EventsAbout("deviceAdded", id)) =
              (IF Has(devices, id) /\ ~Has(lastOp.n, id) THEN 1 ELSE 0)
         /\ Cardinality(EventsAbout("deviceRemoved", id)) =
              (IF Has(lastOp.n, id) /\ ~Has(devices, id) THEN 1 ELSE 0)
    /\ Cardinality(EventsNamed("defaultDeviceChanged")) =
         (IF DefaultId(lastOp.n) # DefaultId(devices) THEN 1 ELSE 0)
    /\ ( /\ Len(lastOp.n) = 2 /\ Len(devices) = 2
         /\ lastOp.n[1].id = "A" /\ lastOp.n[1].isDefault
         /\ lastOp.n[2].id = "B" /\ ~lastOp.n[2].isDefault
         /\ devices[1] = lastOp.n[2]
         /\ devices[2].id = "C" /\ devices[2].isDefault ) =>
           /\ Len(lastOp.events) = 3
           /\ Cardinality(EventsAbout("deviceRemoved", "A")) = 1
           /\ Cardinality(EventsAbout("deviceAdded", "C")) = 1
           /\ Cardinality(EventsAbout("defaultDeviceChanged", "C")) = 1

(* C20: a diff raises a 'default-changed' event if and only if the device   *)
(* marked default differs between the old and the new cache, whether or not *)
(* the old cache had a default and whether or not the new cache has one.    *)
C20_DefaultChangedIff ==
  lastOp.op = "detectDeviceChanges" =>
    (EventsNamed("defaultDeviceChanged") # {}
       <=> DefaultId(lastOp.n) # DefaultId(devices))

(* C21: a diff raises a 'state-changed' event for an id if and only if the *)
(* id is in both the old and the new cache and its isEnabled flag differs,  *)
(* and then exactly one, carrying the new record; an id in only one of the  *)
(* two caches gets none.                                                    *)
C21_StateChangedIff ==
  lastOp.op = "detectDeviceChanges" =>
    \A id \in DeviceIds :
      /\ Cardinality(EventsAbout("deviceStateChanged", id)) =
           (IF Has(lastOp.n, id) /\ Has(devices, id)
                 /\ Get(lastOp.n, id).isEnabled # Get(devices, id).isEnabled
              THEN 1 ELSE 0)
      /\ \A i \in EventsAbout("deviceStateChanged", id) :
           lastOp.events[i].payload.device = Get(devices, id)

\* a diff in which one device flipped its isEnabled flag and another, disabled
\* one is new
C21_Witness ==
  /\ lastOp.op = "detectDeviceChanges"
  /\ EventsNamed("deviceStateChanged") # {}
  /\ \E id \in DeviceIds :
       /\ ~Has(lastOp.n, id)
       /\ Has(devices, id)
       /\ ~Get(devices, id).isEnabled

\* an enumeration of the driver failed in the last method of the device
\* manager; found is the snapshot the method found stored
EnumerationFailed(op, found) ==
  \/ /\ op.op \in {"deviceInitialize", "listDevices", "getDevice", "getDefaultDevice"}
     /\ op.driver[1] = <<>>
  \/ /\ op.op = "checkForDeviceChanges"
     /\ \/ op.driver[1] = <<>>
        \/ /\ Snapshot(op.driver[1][1]) # found
           /\ op.driver[2] = <<>>

(* C22: when an enumeration of the driver fails during a poll or a refresh, *)
(* the device cache and the default-device id are exactly as before, the    *)
(* stored snapshot is not advanced, no event is raised, and the monitoring  *)
(* flag and its interval are untouched, so that a running poll keeps        *)
(* running and compares against the same snapshot again.                    *)
C22_FailedEnumerationChangesNothing ==
  [][EnumerationFailed(lastOp', lastDeviceSnapshot) =>
       /\ devices' = devices
       /\ defaultDeviceId' = defaultDeviceId
       /\ lastDeviceSnapshot' = lastDeviceSnapshot
       /\ isMonitoring' = isMonitoring
       /\ monitoringInterval' = monitoringInterval
       /\ lastOp'.events = <<>>
       /\ (lastOp'.op = "checkForDeviceChanges" => monitoringInterval' = PollTimer)]_vars

\* a poll found a changed list, the enumeration of its refresh failed, and
\* the cache it found was not empty
C22_Witness ==
  /\ lastOp.op = "checkForDeviceChanges"
  /\ lastOp.driver[1] # <<>>
  /\ Snapshot(lastOp.driver[1][1]) # lastOp.n.lastDeviceSnapshot
  /\ lastOp.driver[2] = <<>>
  /\ devices # <<>>
  /\ defaultDeviceId # <<>>
  /\ isMonitoring

(* C23: getDefaultDevice() returns the record marked default in the freshly *)
(* refreshed cache when there is one; when none is marked default it        *)
(* returns the first device that is enabled, and null when no device is     *)
(* enabled.                                                                 *)
C23_DefaultOrFirstEnabled ==
  (lastOp.op = "getDefaultDevice" /\ lastOp.ok) =>
    LET marked == {i \in DOMAIN devices : devices[i].isDefault}
        enabled == {i \in DOMAIN devices : devices[i].isEnabled}
    IN  /\ devices = refreshDeviceList(lastOp.driver[1][1])
        /\ IF marked # {}
             THEN \E i \in marked : lastOp.ret = <<devices[i]>>
           ELSE IF enabled # {}
             THEN \E i \in enabled :
                    /\ lastOp.ret = <<devices[i]>>
                    /\ \A j \in enabled : i <= j
           ELSE lastOp.ret = <<>>

\* getDefaultDevice() fell back to an enabled device that is not the first of
\* the list
C23_Witness ==
  /\ lastOp.op = "getDefaultDevice"
  /\ lastOp.ok
  /\ \A i \in DOMAIN devices : ~devices[i].isDefault
  /\ Len(devices) = 2
  /\ ~devices[1].isEnabled
  /\ lastOp.ret = <<devices[2]>>

(* C24: after every push into the segment window (addAudioChunk), the sum  *)
(* of the durations of the buffered chunks is at most the cap of 30 000 ms. *)
C24_WindowWithinCap ==
  lastOp.op = "addAudioChunk" => TotalDuration(audioBuffer) <= maxBufferDuration

\* a push evicted a chunk and left the window filled exactly to the cap
C24_Witness ==
  /\ lastOp.op = "addAudioChunk"
  /\ Len(audioBuffer) < lastOp.n + 1
  /\ TotalDuration(audioBuffer) = maxBufferDuration

\* the last k chunks of a sequence
Suffix(chunks, k) == SubSeq(chunks, Len(chunks) - k + 1, Len(chunks))

(* C25: the window after a push is the longest suffix of the previous       *)
(* window followed by the new chunk whose total duration does not exceed    *)
(* the cap: chunks leave only from the front, only while the total exceeds  *)
(* the cap.                                                                 *)
C25_LongestSuffixWithinCap ==
  [][lastOp'.op = "addAudioChunk" =>
       LET all == Append(audioBuffer, lastOp'.driver[1])
       IN  \E k \in 0..Len(all) :
             /\ audioBuffer' = Suffix(all, k)
             /\ TotalDuration(Suffix(all, k)) <= maxBufferDuration
             /\ \A j \in (k + 1)..Len(all) :
                  TotalDuration(Suffix(all, j)) > maxBufferDuration]_vars

\* a push removed two chunks from the front and kept the rest
C25_Witness ==
  /\ lastOp.op = "addAudioChunk"
  /\ Len(audioBuffer) = lastOp.n + 1 - 2
  /\ Len(audioBuffer) >= 1

(* C26: a transcription request that completes successfully leaves the      *)
(* window empty when it was not made in continuous mode, and does not       *)
(* change the window when it was; the part of the request before the        *)
(* service answers never changes the window.                                *)
C26_SuccessClearsUnlessContinuous ==
  [][/\ lastOp'.op = "transcribeAwait" => audioBuffer' = audioBuffer
     /\ (lastOp'.op = "transcribe" /\ lastOp'.ok) =>
          IF lastOp'.driver[1].continuous THEN audioBuffer' = audioBuffer
          ELSE audioBuffer' = <<>>]_vars

\* a continuous request over the buffered chunks completed and the window
\* still holds them
C26_Witness ==
  /\ lastOp.op = "transcribe"
  /\ lastOp.ok
  /\ lastOp.driver[1].continuous
  /\ lastOp.driver[1].audioData = <<>>
  /\ Len(audioBuffer) >= 2

(* C27: a transcription request that fails (manager not initialised,        *)
(* service unknown or unavailable, no audio to transcribe, or an error of   *)
(* the recognition service) raises an error to its caller and leaves the    *)
(* window and the transcript history as they were.                          *)
C27_FailureChangesNothing ==
  [][(lastOp'.op = "transcribe" /\ ~lastOp'.ok) =>
       /\ lastOp'.error # "none"
       /\ audioBuffer' = audioBuffer
       /\ transcripts' = transcripts]_vars

\* the recognition service threw while the window and the history were not
\* empty
C27_Witness ==
  /\ lastOp.op = "transcribe"
  /\ ~lastOp.ok
  /\ lastOp.error = "transcription failed"
  /\ audioBuffer # <<>>
  /\ transcripts # <<>>

\* the orchestrator is idle, its drain timer cancelled, the driver handle
\* released and the listeners detached
CleanedUp ==
  /\ ~isCapturing
  /\ processingInterval = Null
  /\ liveTimers = {}
  /\ nativeModule = Null
  /\ ~listenersAttached

(* C28: when cleanup() has returned, from whatever lifecycle state it was   *)
(* called in, the orchestrator is idle, its drain timer is cancelled, the   *)
(* driver handle is released and all listeners are detached.                *)
C28_CleanupLeavesIdle ==
  (lastOp.op = "cleanup" /\ lastOp.ok) => CleanedUp

(* C29: for every interleaving of writes and reads of the ring buffer, the *)
(* samples returned by read, in order, are a prefix of the samples accepted *)
(* by write, in order, and what is not yet returned is exactly what the     *)
(* buffer holds: nothing is lost, duplicated or reordered, also when the    *)
(* cursors wrap around.                                                     *)
C29_ReadsArePrefixOfWrites ==
  /\ Len(samplesOut) <= Len(samplesIn)
  /\ samplesOut = SubSeq(samplesIn, 1, Len(samplesOut))
  /\ Contents(ringBuffer) = SubSeq(samplesIn, Len(samplesOut) + 1, Len(samplesIn))

\* a read of two different samples crossed the end of a buffer of three
\* slots, after the buffer had been filled and drained once
C29_Witness ==
  /\ lastOp.op = "read"
  /\ ringBuffer.size = 3
  /\ ringBuffer.readPos = 1
  /\ Len(lastOp.ret) = 2
  /\ lastOp.ret[1] # lastOp.ret[2]
  /\ Len(samplesOut) = 4

(* C30: a block whose energy is above the speech threshold leaves the      *)
(* detector speaking with silence-start unset; speech-start becomes the     *)
(* block's timestamp when the detector was not speaking, and is unchanged   *)
(* when it was.                                                             *)
C30_LoudBlockStartsOrKeepsSpeech ==
  (lastOp.op = "processAudio" /\ EnergyAbove(lastOp.ret, energyThreshold)) =>
    /\ vad.isSpeaking
    /\ vad.silenceStartTime = 0
    /\ vad.speechStartTime = IF lastOp.n.found.isSpeaking
                               THEN lastOp.n.found.speechStartTime
                               ELSE lastOp.n.timestamp

\* a loud block reached a speaking detector that had noted the start of a
\* silence: the silence is forgotten, the start of the speech is kept
C30_Witness ==
  /\ lastOp.op = "processAudio"
  /\ EnergyAbove(lastOp.ret, energyThreshold)
  /\ lastOp.n.found.isSpeaking
  /\ lastOp.n.found.silenceStartTime > 0
  /\ vad.silenceStartTime = 0
  /\ vad.speechStartTime < lastOp.n.found.silenceStartTime

(* C31: a block whose energy is below the silence threshold, reaching a    *)
(* speaking detector, sets silence-start to its timestamp when silence-     *)
(* start was unset, and the detector stops speaking, clearing speech-start  *)
(* and silence-start, exactly when the time since silence-start exceeds     *)
(* the minimum silence duration; reaching a detector that is not speaking   *)
(* it changes nothing.                                                      *)
C31_QuietBlock ==
  (lastOp.op = "processAudio" /\ EnergyBelow(lastOp.ret, silenceThreshold)) =>
    LET found == lastOp.n.found
        timestamp == lastOp.n.timestamp
        silenceStart == IF found.silenceStartTime = 0 THEN timestamp
                        ELSE found.silenceStartTime
    IN  IF ~found.isSpeaking THEN vad = found
        ELSE IF timestamp - silenceStart > minSilenceDuration
          THEN vad = [isSpeaking |-> FALSE, speechStartTime |-> 0,
                      silenceStartTime |-> 0]
        ELSE vad = [found EXCEPT !.silenceStartTime = silenceStart]

\* a quiet block exactly the minimum silence duration after the start of the
\* silence: the detector keeps speaking
C31_Witness ==
  /\ lastOp.op = "processAudio"
  /\ EnergyBelow(lastOp.ret, silenceThreshold)
  /\ lastOp.n.found.isSpeaking
  /\ lastOp.n.found.silenceStartTime > 0
  /\ lastOp.n.timestamp - lastOp.n.found.silenceStartTime = minSilenceDuration
  /\ vad = lastOp.n.found

\* the energy of a block is at least the silence threshold and at most the
\* speech threshold
BetweenThresholds(audioData) ==
  /\ Len(audioData) > 0
  /\ ~EnergyBelow(audioData, silenceThreshold)
  /\ ~EnergyAbove(audioData, energyThreshold)

(* C32: a block whose energy lies between the silence threshold and the     *)
(* speech threshold, both included, leaves is-speaking, speech-start and    *)
(* silence-start as they were, whether the detector is speaking or not.     *)
C32_BetweenThresholdsChangesNothing ==
  (lastOp.op = "processAudio" /\ BetweenThresholds(lastOp.ret)) =>
    vad = lastOp.n.found

\* a block exactly at the speech threshold reached a speaking detector that
\* had noted the start of a silence
C32_Witness ==
  /\ lastOp.op = "processAudio"
  /\ lastOp.ret = <<energyThreshold>>
  /\ lastOp.n.found.isSpeaking
  /\ lastOp.n.found.silenceStartTime > 0
  /\ vad = lastOp.n.found

\* the last method was a poll whose two enumerations returned this list
PolledList(list) ==
  /\ lastOp.op = "checkForDeviceChanges"
  /\ lastOp.driver[1] = <<list>>
  /\ lastOp.driver[2] = <<list>>

(* C33: a poll that finds a list different from the one the poll before it *)
(* found raises an 'added' event for every id the earlier list did not have *)
(* and a 'removed' event for every id the later list does not have,         *)
(* whatever listDevices(), getDevice() or getDefaultDevice() did between    *)
(* the two polls.                                                           *)
C33_PollReportsAddedAndRemoved ==
  \A list \in DriverLists :
    (/\ PolledList(list)
     /\ lastOp.n.lastDeviceSnapshot # <<>>
     /\ Snapshot(list) # lastOp.n.lastDeviceSnapshot) =>
      LET earlier == lastOp.n.lastDeviceSnapshot[1]
      IN  \A id \in DeviceIds :
            /\ (Has(list, id) /\ ~Has(earlier, id)) =>
                 EventsAbout("deviceAdded", id) # {}
            /\ (Has(earlier, id) /\ ~Has(list, id)) =>
                 EventsAbout("deviceRemoved", id) # {}

(* C34: a poll whose sorted snapshot equals the stored one raises no event  *)
(* and leaves the device cache, the default-device id and the stored        *)
(* snapshot as they were.                                                   *)
C34_UnchangedSnapshotNoWork ==
  (/\ lastOp.op = "checkForDeviceChanges"
   /\ lastOp.driver[1] # <<>>
   /\ Snapshot(lastOp.driver[1][1]) = lastOp.n.lastDeviceSnapshot) =>
    /\ lastOp.events = <<>>
    /\ devices = lastOp.n.devices
    /\ defaultDeviceId = lastOp.n.defaultDeviceId
    /\ lastDeviceSnapshot = lastOp.n.lastDeviceSnapshot

\* a poll found the list of the poll before while the cache, refreshed in
\* between, held other devices
C34_Witness ==
  /\ lastOp.op = "checkForDeviceChanges"
  /\ lastOp.driver[1] # <<>>
  /\ Snapshot(lastOp.driver[1][1]) = lastOp.n.lastDeviceSnapshot
  /\ devices # <<>>
  /\ Snapshot(devices) # lastDeviceSnapshot

\* the chunks of a sequence, as a set
ChunksOf(chunks) == {chunks[i] : i \in DOMAIN chunks}

\* the step completes the i-th suspended request
Completes(i) ==
  /\ lastOp'.op = "transcribe"
  /\ lastOp'.driver = <<inFlight[i].request>>
  /\ Len(inFlight') = Len(inFlight) - 1
  /\ \A j \in DOMAIN inFlight' :
       inFlight'[j].handed = inFlight[IF j < i THEN j ELSE j + 1].handed

(* C35: when a transcription request over the window that was not made in  *)
(* continuous mode completes, every chunk of the window that was not        *)
(* handed to the recognition service, having been pushed while the request  *)
(* was in flight, is still in the window.                                   *)
C35_PushedInFlightSurvives ==
  [][\A i \in DOMAIN inFlight :
       (/\ Completes(i)
        /\ lastOp'.ok
        /\ ~inFlight[i].request.continuous
        /\ inFlight[i].request.audioData = <<>>) =>
         \A chunk \in ChunksOf(audioBuffer) \ ChunksOf(inFlight[i].handed) :
           chunk \in ChunksOf(audioBuffer')]_vars

(* C36: in every reachable state of the orchestrator the drain timer is    *)
(* scheduled if and only if the orchestrator is capturing, at most one      *)
(* drain timer exists, and capturing implies that a buffer and a current    *)
(* config are present; a delivery that arrives while the orchestrator is    *)
(* not capturing changes no state and emits no event.                       *)
C36_TimerIffCapturing ==
  /\ [](/\ (liveTimers # {}) <=> isCapturing
        /\ (processingInterval # Null) <=> isCapturing
        /\ Cardinality(liveTimers) <= 1
        /\ isCapturing => (ringBuffer # Null /\ currentConfig # Null))
  /\ [][(lastOp'.op = "onAudioData" /\ ~isCapturing) =>
          /\ UNCHANGED <<mgrVars, ringBuffer, liveTimers, callbackSet, delivered>>
          /\ lastOp'.events = <<>>]_vars

\* a delivery reached an orchestrator that had been stopped and still held
\* the driver's callback
C36_Witness ==
  /\ lastOp.op = "onAudioData"
  /\ ~isCapturing
  /\ callbackSet
  /\ nativeModule # Null
  /\ liveTimers = {}
  /\ audioChunks # <<>>

(* C37: a drain cycle that finds at least one second of samples removes   *)
(* exactly sampleRate * channels samples from the front of the buffer,      *)
(* whether or not the detector reports voice, and leaves the rest in        *)
(* place; when the detector reports no voice the second is discarded: no    *)
(* segment is emitted and the history is as it was, and a segment that is   *)
(* emitted carries the second read in its own cycle.                        *)
C37_DrainRemovesOneSecond ==
  [][(/\ lastOp'.op = "processAudioChunks"
      /\ ringBuffer # Null /\ currentConfig # Null
      /\ getAvailableData(ringBuffer) >= SamplesPerSecond) =>
       LET before == Contents(ringBuffer)
           second == SubSeq(before, 1, SamplesPerSecond)
           voice == processAudio(vad, second, now').hasVoice
       IN  /\ ringBuffer' # Null
           /\ Contents(ringBuffer') = SubSeq(before, SamplesPerSecond + 1, Len(before))
           /\ ~voice => (lastOp'.events = <<>> /\ audioChunks' = audioChunks)
           /\ \A i \in DOMAIN lastOp'.events :
                lastOp'.events[i].payload.data = second]_vars

\* a drain cycle read a loud second that started the speech, emitted nothing
\* and left a later sample in the buffer
C37_Witness ==
  /\ lastOp.op = "processAudioChunks"
  /\ lastOp.events = <<>>
  /\ vad.isSpeaking
  /\ vad.speechStartTime = now
  /\ ringBuffer # Null
  /\ getAvailableData(ringBuffer) > 0

\* C38: while the driver reports one and the same list on every enumeration,
\* no handler raises a device change event, whatever the order of polls and
\* of listDevices(), getDevice() and getDefaultDevice() calls, the first
\* poll (which compares with the empty stored snapshot) included
C38_SteadyDriverNoEvents ==
  lastOp.events = <<>>

\* the first poll has run over a non-empty list: it found the stored
\* snapshot empty, refreshed the cache and stored the new snapshot
C38_Witness ==
  /\ lastOp.op = "checkForDeviceChanges"
  /\ lastOp.n.lastDeviceSnapshot = <<>>
  /\ lastDeviceSnapshot # <<>>
  /\ devices # <<>>
  /\ driverList # <<>>

\* C39: in every reachable state of the device manager (after initialize,
\* any refresh, any poll and cleanup) the recorded default-device id is
\* unset or names a record of the device cache that is marked is-default
C39_DefaultIdNamesCachedDefault ==
  \/ defaultDeviceId = <<>>
  \/ /\ Has(devices, defaultDeviceId[1])
     /\ Get(devices, defaultDeviceId[1]).isDefault

\* C40: a call of handleRecoverableError that finds five or more errors
\* recorded for its context:code key resolves to false and starts no retry,
\* so the callback is never invoked for it; a call that finds fewer, for a
\* recoverable error with a callback, records the error and suspends a
\* retry; when that retry succeeds the call resolves to true and the key's
\* count is reset, and when it fails the call resolves to false and the
\* counts stay as they are, the increment included
C40_GiveUpAtFiveElseRetry ==
  [][/\ lastOp'.op = "handleRecoverableError" =>
         LET request == lastOp'.driver[1]
             count == MapGetOrZero(errorCounts, request.errorKey)
         IN  /\ errorCounts'[request.errorKey] = count + 1
             /\ lastOp'.events = <<>>
             /\ count >= 5 =>
                  (lastOp'.ret = <<FALSE>> /\ pendingRetries' = pendingRetries)
             /\ (count < 5 /\ request.recoverable /\ request.retryCallback) =>
                  /\ lastOp'.ret = <<>>
                  /\ pendingRetries' =
                       Append(pendingRetries,
                              retryWithBackoff(request.errorKey, count))
     /\ lastOp'.op = "retrySettled" =>
         LET retry == lastOp'.driver[1]
         IN  /\ Len(lastOp'.events) = 1
             /\ lastOp'.events[1].payload = retry
             /\ retry.attemptNumber < 5
             /\ lastOp'.ret = <<TRUE>> =>
                  /\ lastOp'.ok
                  /\ MapGetOrZero(errorCounts', retry.errorKey) = 0
             /\ lastOp'.ret # <<TRUE>> =>
                  /\ lastOp'.ret = <<FALSE>>
                  /\ errorCounts' = errorCounts]_vars

\* a call for a recoverable error with a callback has found five errors
\* recorded for its key and given up: the sixth is recorded, no retry waits
C40_Witness ==
  /\ lastOp.op = "handleRecoverableError"
  /\ lastOp.n = 5
  /\ lastOp.driver[1].recoverable /\ lastOp.driver[1].retryCallback
  /\ lastOp.ret = <<FALSE>>
  /\ pendingRetries = <<>>
  /\ errorCounts[lastOp.driver[1].errorKey] = 6

====
